---- MODULE Spec2Model ----
(***************************************************************************)
(* Model of the Enhanced Todo plugin's core: the line parser               *)
(* (parsers/EnhancedTodoParser.ts), the priority assigner                  *)
(* (services/AutoPriorityAssigner.ts), the suitability analyzer and        *)
(* breakdown engine (services/TaskSuitabilityAnalyzer.ts), the task       *)
(* record (models/EnhancedTodoItem.ts), and of the plugin object           *)
(* (main.ts): its toggle of a task, its end-of-day timer and its handlers  *)
(* of the vault's file events.                                             *)
(*                                                                         *)
(* A JavaScript string is a sequence of one-character strings, so that the *)
(* regular expressions of the source are modelled by what they match       *)
(* (prefixes, substrings, character classes), not by word tokens.          *)
(* A document is the sequence of its lines, i.e. content.split('\n').      *)
(***************************************************************************)
EXTENDS Integers, Sequences, FiniteSets, TLC

\* ------------------------------------------------------------------------
\* Characters and strings
\* ------------------------------------------------------------------------

UpperAlpha == <<"A","B","C","D","E","F","G","H","I","J","K","L","M","N","O","P","Q","R","S","T","U","V","W","X","Y","Z">>

LowerAlpha == <<"a","b","c","d","e","f","g","h","i","j","k","l","m","n","o","p","q","r","s","t","u","v","w","x","y","z">>

Digits == {"0","1","2","3","4","5","6","7","8","9"}

DigitValue(c) == CASE c = "0" -> 0 [] c = "1" -> 1 [] c = "2" -> 2 [] c = "3" -> 3
                   [] c = "4" -> 4 [] c = "5" -> 5 [] c = "6" -> 6 [] c = "7" -> 7
                   [] c = "8" -> 8 [] c = "9" -> 9 [] OTHER -> 0

Range(s) == {s[i] : i \in 1..Len(s)}

\* \s of a JavaScript regular expression (the white space the model uses)
IsWs(c) == c \in {" ", "\t"}

IsDigit(c) == c \in Digits

\* the class \w of a JavaScript regular expression
WordChars == Range(UpperAlpha) \cup Range(LowerAlpha) \cup Digits \cup {"_"}

IsWordChar(c) == c \in WordChars

\* the lower-case letter of each upper-case letter, and the converse
LowerOf == [c \in Range(UpperAlpha) |-> LowerAlpha[CHOOSE i \in 1..26 : UpperAlpha[i] = c]]

UpperOf == [c \in Range(LowerAlpha) |-> UpperAlpha[CHOOSE i \in 1..26 : LowerAlpha[i] = c]]

LowerChar(c) == IF c \in DOMAIN LowerOf THEN LowerOf[c] ELSE c

UpperChar(c) == IF c \in DOMAIN UpperOf THEN UpperOf[c] ELSE c

\* String.prototype.toLowerCase
toLowerCase(s) == [i \in 1..Len(s) |-> LowerChar(s[i])]

\* s.slice(from - 1): the characters of s from index `from` (1-based) on
Drop(s, from) == IF from > Len(s) THEN <<>> ELSE SubSeq(s, from, Len(s))

\* pat occurs in s at index i (1-based)
MatchAt(s, i, pat) == /\ i >= 1
                      /\ i + Len(pat) - 1 <= Len(s)
                      /\ \A j \in 1..Len(pat) : s[i + j - 1] = pat[j]

\* the same, ignoring case (the i flag)
MatchAtNoCase(s, i, pat) == /\ i >= 1
                            /\ i + Len(pat) - 1 <= Len(s)
                            /\ \A j \in 1..Len(pat) : LowerChar(s[i + j - 1]) = LowerChar(pat[j])

\* String.prototype.includes
Includes(s, pat) == \E i \in 1..(Len(s) + 1) : MatchAt(s, i, pat)

\* String.prototype.startsWith
StartsWith(s, pat) == MatchAt(s, 1, pat)

\* a regular expression (w1|w2|...) with no anchor: some alternative occurs
IncludesAny(s, pats) == \E p \in pats : Includes(s, p)

\* index of the first character of s at or after i that is not white space
\* (Len(s) + 1 when there is none)
SkipWs(s, i) == IF \E k \in i..Len(s) : ~IsWs(s[k])
                THEN CHOOSE k \in i..Len(s) : ~IsWs(s[k]) /\ \A m \in i..(k - 1) : IsWs(s[m])
                ELSE IF i > Len(s) + 1 THEN i ELSE Len(s) + 1

\* String.prototype.trim
trim(s) == IF \A k \in 1..Len(s) : IsWs(s[k]) THEN <<>>
           ELSE LET a == SkipWs(s, 1)
                    b == CHOOSE k \in 1..Len(s) : ~IsWs(s[k]) /\ \A m \in (k + 1)..Len(s) : IsWs(s[m])
                IN SubSeq(s, a, b)

\* end (exclusive, 1-based) of the longest run of characters satisfying the
\* class test starting at i; equals i when s[i] is not in the class
RECURSIVE RunEnd(_, _, _)
RunEnd(s, i, cls) == IF i <= Len(s) /\ s[i] \in cls THEN RunEnd(s, i + 1, cls) ELSE i

\* the class [\w\/\-] of the tag pattern
TagChars == WordChars \cup {"/", "-"}

\* the class [\d\-\/] of the date-tag pattern
DateChars == Digits \cup {"/", "-"}

\* ------------------------------------------------------------------------
\* constants.ts
\* ------------------------------------------------------------------------

TaskPriority == {"A", "B", "C", "D"}

Todo == "Todo"

Done == "Done"

\* PRIORITY_TIME_RATIOS[priority].timePerTask
PRIORITY_TIME_RATIOS(priority) == CASE priority = "A" -> 30
                                    [] priority = "B" -> 30
                                    [] priority = "C" -> 10
                                    [] priority = "D" -> 60

PRIORITY_A == 6

PRIORITY_B == 4

PRIORITY_C == 2

\* the absent value of an optional string (a date, a completion time)
NoDate == <<>>

\* the null of extractManualPriority
NoPriority == "none"

\* ------------------------------------------------------------------------
\* Literals of the source
\* ------------------------------------------------------------------------

PriorityTagPrefix == <<"#","p","r","i","o","r","i","t","y","/">>

DatePlaceholder == <<"%","d","a","t","e","%">>

MdExtension == <<".","m","d">>

BoxLower == <<"[","x","]">>

BoxUpper == <<"[","X","]">>

SimpleVerbs == {<<"c","h","e","c","k">>, <<"v","e","r","i","f","y">>, <<"c","o","n","f","i","r","m">>, <<"s","e","n","d">>, <<"e","m","a","i","l">>, <<"c","a","l","l">>, <<"r","e","a","d">>}

MediumVerbs == {<<"u","p","d","a","t","e">>, <<"f","i","x">>, <<"e","d","i","t">>, <<"w","r","i","t","e">>, <<"c","r","e","a","t","e">>, <<"a","d","d">>, <<"r","e","m","o","v","e">>}

ComplexVerbs == {<<"d","e","s","i","g","n">>, <<"i","m","p","l","e","m","e","n","t">>, <<"d","e","v","e","l","o","p">>, <<"a","n","a","l","y","z","e">>, <<"r","e","s","e","a","r","c","h">>, <<"b","u","i","l","d">>}

VeryComplexVerbs == {<<"a","r","c","h","i","t","e","c","t">>, <<"o","p","t","i","m","i","z","e">>, <<"r","e","f","a","c","t","o","r">>, <<"i","n","t","e","g","r","a","t","e">>, <<"d","e","p","l","o","y">>}

ScopeWords == {<<"m","u","l","t","i","p","l","e">>, <<"v","a","r","i","o","u","s">>, <<"s","e","v","e","r","a","l">>}

IntensityWords == {<<"c","o","m","p","l","e","x">>, <<"a","d","v","a","n","c","e","d">>, <<"c","o","m","p","r","e","h","e","n","s","i","v","e">>}

\* ------------------------------------------------------------------------
\* EnhancedTodoParser: line recognition
\* ------------------------------------------------------------------------

\* The common shape of the three checkbox patterns of the source,
\*   ^\s{minIndent,}[-*]\s{minGap,}\[<one of box>\]
\* The result is the index just after the "]" (0 when the line does not match).
CheckboxPrefix(s, minIndent, minGap, box) ==
    LET b == SkipWs(s, 1)
        k == SkipWs(s, b + 1)
    IN IF /\ b <= Len(s)
          /\ b - 1 >= minIndent
          /\ s[b] \in {"-", "*"}
          /\ k - (b + 1) >= minGap
          /\ k + 2 <= Len(s)
          /\ s[k] = "["
          /\ s[k + 1] \in box
          /\ s[k + 2] = "]"
       THEN k + 3
       ELSE 0

\* /^\s*[-*]\s+\[[ x]\]/.test(line)
isTodoLine(line) == CheckboxPrefix(line, 0, 1, {" ", "x"}) # 0

\* line.match(/^\s+[-*]\s+\[[ x]\]/) of parseSubtasks
isIndentedSubtaskLine(line) == CheckboxPrefix(line, 1, 1, {" ", "x"}) # 0

\* s.replace(/^\s*[-*]\s*\[[x ]\]\s*/i, '')
stripCheckbox(s) == LET e == CheckboxPrefix(s, 0, 0, {" ", "x", "X"})
                    IN IF e = 0 THEN s ELSE Drop(s, SkipWs(s, e))

\* content.match(/#[\w\/\-]+/g) || []
RECURSIVE TagScan(_, _)
TagScan(s, i) == IF i > Len(s) THEN <<>>
                 ELSE LET e == RunEnd(s, i + 1, TagChars)
                      IN IF s[i] = "#" /\ e > i + 1
                         THEN <<SubSeq(s, i, e - 1)>> \o TagScan(s, e)
                         ELSE TagScan(s, i + 1)

extractTags(content) == TagScan(content, 1)

\* content.replace(/#[\w\/\-]+/g, '')
RECURSIVE TagStrip(_, _)
TagStrip(s, i) == IF i > Len(s) THEN <<>>
                  ELSE LET e == RunEnd(s, i + 1, TagChars)
                       IN IF s[i] = "#" /\ e > i + 1
                          THEN TagStrip(s, e)
                          ELSE <<s[i]>> \o TagStrip(s, i + 1)

removeTags(content) == TagStrip(content, 1)

Min(S) == CHOOSE x \in S : \A y \in S : x <= y

Max(S) == CHOOSE x \in S : \A y \in S : x >= y

\* positions where /#priority\/([ABCD])/i matches
PriorityTagMatches(line) ==
    {i \in 1..Len(line) : /\ MatchAtNoCase(line, i, PriorityTagPrefix)
                          /\ i + Len(PriorityTagPrefix) <= Len(line)
                          /\ UpperChar(line[i + Len(PriorityTagPrefix)]) \in TaskPriority}

\* positions where /#([ABCD])(?!\w)/i matches
SimpleTagMatches(line) ==
    {i \in 1..Len(line) : /\ line[i] = "#"
                          /\ i + 1 <= Len(line)
                          /\ UpperChar(line[i + 1]) \in TaskPriority
                          /\ (i + 2 > Len(line) \/ ~IsWordChar(line[i + 2]))}

\* extractManualPriority with the two forms tried in the other order: the bare
\* tag first, the #priority/ tag only when there is none
extractManualPriority_BareFirst(line) ==
    IF SimpleTagMatches(line) # {}
    THEN UpperChar(line[Min(SimpleTagMatches(line)) + 1])
    ELSE IF PriorityTagMatches(line) # {}
         THEN UpperChar(line[Min(PriorityTagMatches(line)) + Len(PriorityTagPrefix)])
         ELSE NoPriority

extractManualPriority(line) ==
    IF PriorityTagMatches(line) # {}
    THEN UpperChar(line[Min(PriorityTagMatches(line)) + Len(PriorityTagPrefix)])
    ELSE IF SimpleTagMatches(line) # {}
         THEN UpperChar(line[Min(SimpleTagMatches(line)) + 1])
         ELSE NoPriority

\* parseBasicTodoData: title, status and tags of a task line (the description
\* is the text after the first '\n' of the line, and a line has none)
parseBasicTodoData(line) ==
    LET trimmedLine == trim(line)
        isCompleted == \E i \in 1..Len(trimmedLine) : MatchAtNoCase(trimmedLine, i, BoxLower)
        content     == stripCheckbox(trimmedLine)
    IN [title       |-> trim(removeTags(content)),
        description |-> <<>>,
        status      |-> IF isCompleted THEN Done ELSE Todo,
        tags        |-> extractTags(content)]

\* ------------------------------------------------------------------------
\* EnhancedTodoParser: dates
\* ------------------------------------------------------------------------

\* s has the shape \d{4}-\d{2}-\d{2} at index i
IsYmdAt(s, i) == /\ i >= 1
                 /\ i + 9 <= Len(s)
                 /\ \A k \in {0, 1, 2, 3, 5, 6, 8, 9} : IsDigit(s[i + k])
                 /\ s[i + 4] = "-"
                 /\ s[i + 7] = "-"

\* DateTime.fromISO(dateStr).isValid, for the date strings of the model:
\* a calendar date written yyyy-MM-dd is valid, any other text of the class
\* [\d\-\/]+ that the model's documents contain is not an ISO date
isValidISO(s) ==
    /\ Len(s) = 10
    /\ IsYmdAt(s, 1)
    /\ LET y == 1000 * DigitValue(s[1]) + 100 * DigitValue(s[2]) + 10 * DigitValue(s[3]) + DigitValue(s[4])
           m == 10 * DigitValue(s[6]) + DigitValue(s[7])
           d == 10 * DigitValue(s[9]) + DigitValue(s[10])
           leap == (y % 4 = 0 /\ y % 100 # 0) \/ y % 400 = 0
           dim == IF m = 2 THEN (IF leap THEN 29 ELSE 28)
                  ELSE IF m \in {4, 6, 9, 11} THEN 30 ELSE 31
       IN m \in 1..12 /\ d \in 1..dim

\* the text of dateTagFormat before '%date%' (the formats of the model end
\* with the placeholder and their prefix has no regular-expression operator)
FormatPrefix(fmt) == LET i == Min({k \in 1..Len(fmt) : MatchAt(fmt, k, DatePlaceholder)})
                     IN SubSeq(fmt, 1, i - 1)

\* content.match(new RegExp(dateTagFormat.replace('%date%', '([\\d\\-\\/]+)'))):
\* the captured group of the first match, NoDate when there is no match
DateTagMatch(content, fmt) ==
    LET pre  == FormatPrefix(fmt)
        hits == {i \in 1..Len(content) : /\ MatchAt(content, i, pre)
                                         /\ RunEnd(content, i + Len(pre), DateChars) > i + Len(pre)}
    IN IF hits = {} THEN NoDate
       ELSE LET i == Min(hits)
            IN SubSeq(content, i + Len(pre), RunEnd(content, i + Len(pre), DateChars) - 1)

\* content.match(/\b(\d{4}-\d{2}-\d{2})\b/)
StandaloneDateMatch(content) ==
    LET hits == {i \in 1..Len(content) : /\ IsYmdAt(content, i)
                                         /\ (i = 1 \/ ~IsWordChar(content[i - 1]))
                                         /\ (i + 10 > Len(content) \/ ~IsWordChar(content[i + 10]))}
    IN IF hits = {} THEN NoDate ELSE SubSeq(content, Min(hits), Min(hits) + 9)

\* extractDueDate: the date (as DateTime.toISODate prints it), or NoDate
extractDueDate(content, fmt) ==
    IF DateTagMatch(content, fmt) # NoDate /\ isValidISO(DateTagMatch(content, fmt))
    THEN DateTagMatch(content, fmt)
    ELSE IF StandaloneDateMatch(content) # NoDate /\ isValidISO(StandaloneDateMatch(content))
         THEN StandaloneDateMatch(content)
         ELSE NoDate

\* filePath.split('/').pop()?.replace('.md', '') || ''
Filename(filePath) ==
    LET slashes == {i \in 1..Len(filePath) : filePath[i] = "/"}
        base    == IF slashes = {} THEN filePath ELSE Drop(filePath, Max(slashes) + 1)
        dots    == {i \in 1..Len(base) : MatchAt(base, i, MdExtension)}
    IN IF dots = {} THEN base
       ELSE SubSeq(base, 1, Min(dots) - 1) \o Drop(base, Min(dots) + Len(MdExtension))

AllDigits(s) == \A i \in 1..Len(s) : IsDigit(s[i])

\* /^\d{2}-\d{2}-\d{4}$/
IsMdy(s) == /\ Len(s) = 10
            /\ \A k \in {1, 2, 4, 5, 7, 8, 9, 10} : IsDigit(s[k])
            /\ s[3] = "-"
            /\ s[6] = "-"

isDailyNote(filePath) ==
    LET filename == Filename(filePath)
    IN \/ (Len(filename) = 10 /\ IsYmdAt(filename, 1))
       \/ IsMdy(filename)
       \/ (Len(filename) = 8 /\ AllDigits(filename))

\* extractDateFromDailyNote: a string (never a DateTime), or NoDate for null
extractDateFromDailyNote(filePath) ==
    LET filename == Filename(filePath)
    IN IF Len(filename) = 10 /\ IsYmdAt(filename, 1) THEN filename
       ELSE IF IsMdy(filename)
            THEN SubSeq(filename, 7, 10) \o <<"-">> \o SubSeq(filename, 1, 2) \o <<"-">> \o SubSeq(filename, 4, 5)
            ELSE IF Len(filename) = 8 /\ AllDigits(filename)
                 THEN SubSeq(filename, 1, 4) \o <<"-">> \o SubSeq(filename, 5, 6) \o <<"-">> \o SubSeq(filename, 7, 8)
                 ELSE NoDate

\* ------------------------------------------------------------------------
\* AutoPriorityAssigner
\* ------------------------------------------------------------------------

\* assignPriorityBySubtaskCount with tier A from more than PRIORITY_A subtasks on
assignPriorityBySubtaskCount_AboveA(subtaskCount) ==
    IF subtaskCount > PRIORITY_A THEN "A"
    ELSE IF subtaskCount >= PRIORITY_B THEN "B"
    ELSE IF subtaskCount >= PRIORITY_C THEN "C"
    ELSE "D"

assignPriorityBySubtaskCount(subtaskCount) ==
    IF subtaskCount >= PRIORITY_A THEN "A"
    ELSE IF subtaskCount >= PRIORITY_B THEN "B"
    ELSE IF subtaskCount >= PRIORITY_C THEN "C"
    ELSE "D"

\* parseSubtasks: the trimmed lines consumed after line index startLine
\* (0-based, as in the source); lines is content.split('\n')
RECURSIVE SubtaskScan(_, _)
SubtaskScan(lines, currentLine) ==
    IF currentLine >= Len(lines) THEN <<>>
    ELSE LET line == lines[currentLine + 1]
         IN IF isIndentedSubtaskLine(line)
            THEN <<trim(line)>> \o SubtaskScan(lines, currentLine + 1)
            ELSE IF trim(line) = <<>>
                 THEN SubtaskScan(lines, currentLine + 1)
                 ELSE <<>>

parseSubtasks(lines, startLine) == SubtaskScan(lines, startLine + 1)

MinOf(a, b) == IF a <= b THEN a ELSE b

\* calculateSubtaskComplexity without its Math.min(complexity, 5)
calculateSubtaskComplexity_Uncapped(subtaskTitle) ==
    LET title == toLowerCase(subtaskTitle)
    IN IF \E v \in SimpleVerbs : StartsWith(title, v)
       THEN 1
       ELSE 1 + (IF IncludesAny(title, MediumVerbs) THEN 1 ELSE 0)
              + (IF IncludesAny(title, ComplexVerbs) THEN 2 ELSE 0)
              + (IF IncludesAny(title, VeryComplexVerbs) THEN 3 ELSE 0)
              + (IF IncludesAny(title, ScopeWords) THEN 1 ELSE 0)
              + (IF IncludesAny(title, IntensityWords) THEN 1 ELSE 0)

\* calculateSubtaskComplexity with the complex verbs adding 1 instead of 2
calculateSubtaskComplexity_ComplexAddsOne(subtaskTitle) ==
    LET title == toLowerCase(subtaskTitle)
    IN IF \E v \in SimpleVerbs : StartsWith(title, v)
       THEN 1
       ELSE MinOf(1 + (IF IncludesAny(title, MediumVerbs) THEN 1 ELSE 0)
                    + (IF IncludesAny(title, ComplexVerbs) THEN 1 ELSE 0)
                    + (IF IncludesAny(title, VeryComplexVerbs) THEN 3 ELSE 0)
                    + (IF IncludesAny(title, ScopeWords) THEN 1 ELSE 0)
                    + (IF IncludesAny(title, IntensityWords) THEN 1 ELSE 0),
                  5)

\* calculateSubtaskComplexity (1-5 scale), on the text it is given
calculateSubtaskComplexity(subtaskTitle) ==
    LET title == toLowerCase(subtaskTitle)
    IN IF \E v \in SimpleVerbs : StartsWith(title, v)
       THEN 1
       ELSE MinOf(1 + (IF IncludesAny(title, MediumVerbs) THEN 1 ELSE 0)
                    + (IF IncludesAny(title, ComplexVerbs) THEN 2 ELSE 0)
                    + (IF IncludesAny(title, VeryComplexVerbs) THEN 3 ELSE 0)
                    + (IF IncludesAny(title, ScopeWords) THEN 1 ELSE 0)
                    + (IF IncludesAny(title, IntensityWords) THEN 1 ELSE 0),
                  5)

\* one SubTask of parseSubtasksWithComplexity, from a trimmed subtask line
SubTaskOf(line, startLine, index, parentTaskId) ==
    [id           |-> <<"subtask", startLine, index>>,
     title        |-> trim(stripCheckbox(line)),
     isCompleted  |-> Includes(line, BoxLower) \/ Includes(line, BoxUpper),
     parentTaskId |-> parentTaskId,
     complexity   |-> calculateSubtaskComplexity(line)]

\* parseSubtasksWithComplexity; parseEnhancedTodoLine then sets parentTaskId
parseSubtasksWithComplexity(lines, startLine, parentTaskId) ==
    LET subtaskLines == parseSubtasks(lines, startLine)
    IN [index \in 1..Len(subtaskLines) |->
           SubTaskOf(subtaskLines[index], startLine, index - 1, parentTaskId)]

\* ------------------------------------------------------------------------
\* EnhancedTodoItem
\* ------------------------------------------------------------------------

\* calculateAllocatedTime: the record's own table
calculateAllocatedTime(priority) == CASE priority = "A" -> 30
                                      [] priority = "B" -> 30
                                      [] priority = "C" -> 10
                                      [] priority = "D" -> 60

\* new EnhancedTodoItem(...)
NewTodoItem(id, title, description, priority, sourceFilePath, lineNumber, status, subtasks, isAutoPriority) ==
    [id                     |-> id,
     title                  |-> title,
     description            |-> description,
     priority               |-> priority,
     subtasks               |-> subtasks,
     subtaskCount           |-> Len(subtasks),
     isAutoPriority         |-> isAutoPriority,
     sourceFilePath         |-> sourceFilePath,
     lineNumber             |-> lineNumber,
     status                 |-> status,
     allocatedTime          |-> calculateAllocatedTime(priority),
     remainingTime          |-> calculateAllocatedTime(priority),
     estimatedTime          |-> calculateAllocatedTime(priority),
     assignedDate           |-> NoDate,
     originalAssignedDate   |-> NoDate,
     rescheduleCount        |-> 0,
     rescheduleHistory      |-> <<>>,
     needsRescheduleWarning |-> FALSE,
     parentTaskId           |-> <<>>,
     childTaskIds           |-> <<>>,
     tags                   |-> <<>>,
     isCompleted            |-> (status = Done),
     completedDate          |-> NoDate]

\* assignToDate(date), date a DateTime
assignToDate(todo, date) ==
    [todo EXCEPT !.assignedDate = date,
                 !.originalAssignedDate = IF @ = NoDate THEN date ELSE @]

\* updatePriority without the recalculation of the time allocation
updatePriority_KeepsAllocation(todo, newPriority, isManual) ==
    [todo EXCEPT !.priority       = newPriority,
                 !.isAutoPriority = ~isManual]

\* updatePriority(newPriority, isManual)
updatePriority(todo, newPriority, isManual) ==
    [todo EXCEPT !.priority       = newPriority,
                 !.isAutoPriority = ~isManual,
                 !.allocatedTime  = calculateAllocatedTime(newPriority),
                 !.remainingTime  = calculateAllocatedTime(newPriority)]

\* addRescheduleEvent without the increment of rescheduleCount
addRescheduleEvent_NoCount(todo, fromDate, toDate, reason, now) ==
    [todo EXCEPT !.rescheduleHistory      = Append(@, [date     |-> now,
                                                        reason   |-> reason,
                                                        fromDate |-> fromDate,
                                                        toDate   |-> toDate]),
                 !.needsRescheduleWarning = (todo.rescheduleCount + 1 >= 3),
                 !.assignedDate           = toDate]

\* addRescheduleEvent(fromDate, toDate, reason), called when DateTime.now() is now
addRescheduleEvent(todo, fromDate, toDate, reason, now) ==
    [todo EXCEPT !.rescheduleHistory      = Append(@, [date     |-> now,
                                                        reason   |-> reason,
                                                        fromDate |-> fromDate,
                                                        toDate   |-> toDate]),
                 !.rescheduleCount        = @ + 1,
                 !.needsRescheduleWarning = (todo.rescheduleCount + 1 >= 3),
                 !.assignedDate           = toDate]

\* markCompleted leaving remainingTime as it is
markCompleted_KeepsRemaining(todo, now) ==
    [todo EXCEPT !.status        = Done,
                 !.isCompleted   = TRUE,
                 !.completedDate = now]

\* markCompleted(), called when DateTime.now() is now
markCompleted(todo, now) ==
    [todo EXCEPT !.status        = Done,
                 !.isCompleted   = TRUE,
                 !.completedDate = now,
                 !.remainingTime = 0]

\* markTodo()
markTodo(todo) ==
    [todo EXCEPT !.status        = Todo,
                 !.isCompleted   = FALSE,
                 !.completedDate = NoDate,
                 !.remainingTime = todo.allocatedTime]

\* addSubtask(title, complexity): the record after the call (the call returns
\* the subtask it appended)
addSubtask(todo, title, complexity) ==
    [todo EXCEPT !.subtasks     = Append(@, [id           |-> todo.id \o <<"sub", Len(todo.subtasks)>>,
                                             title        |-> title,
                                             isCompleted  |-> FALSE,
                                             parentTaskId |-> todo.id,
                                             complexity   |-> complexity]),
                 !.subtaskCount = Len(todo.subtasks) + 1]

\* removeSubtask without the update of subtaskCount
removeSubtask_StaleCount(todo, subtaskId) ==
    LET found == {i \in 1..Len(todo.subtasks) : todo.subtasks[i].id = subtaskId}
    IN IF found # {}
       THEN LET index == Min(found)
                rest  == SubSeq(todo.subtasks, 1, index - 1)
                         \o SubSeq(todo.subtasks, index + 1, Len(todo.subtasks))
            IN [task  |-> [todo EXCEPT !.subtasks = rest],
                value |-> TRUE]
       ELSE [task |-> todo, value |-> FALSE]

\* removeSubtask(subtaskId): the record after the call and the value returned
removeSubtask(todo, subtaskId) ==
    LET found == {i \in 1..Len(todo.subtasks) : todo.subtasks[i].id = subtaskId}
    IN IF found # {}
       THEN LET index == Min(found)
                rest  == SubSeq(todo.subtasks, 1, index - 1)
                         \o SubSeq(todo.subtasks, index + 1, Len(todo.subtasks))
            IN [task  |-> [todo EXCEPT !.subtasks = rest, !.subtaskCount = Len(rest)],
                value |-> TRUE]
       ELSE [task |-> todo, value |-> FALSE]

\* AutoPriorityAssigner.updateTaskPriority(task, forceRecalculate): the record
\* after the call and the value returned
updateTaskPriority(task, forceRecalculate) ==
    IF ~task.isAutoPriority /\ ~forceRecalculate
    THEN [task |-> task, value |-> FALSE]
    ELSE LET newPriority == assignPriorityBySubtaskCount(task.subtaskCount)
         IN IF task.priority # newPriority
            THEN [task |-> updatePriority(task, newPriority, FALSE), value |-> TRUE]
            ELSE [task |-> task, value |-> FALSE]

\* AutoPriorityAssigner.validateAutoPriority(task)
validateAutoPriority(task) ==
    LET suggestedPriority == assignPriorityBySubtaskCount(task.subtaskCount)
    IN IF task.priority = suggestedPriority
       THEN [isValid |-> TRUE, suggestedPriority |-> NoPriority]
       ELSE IF ~task.isAutoPriority
            THEN [isValid |-> TRUE, suggestedPriority |-> suggestedPriority]
            ELSE [isValid |-> FALSE, suggestedPriority |-> suggestedPriority]

\* ------------------------------------------------------------------------
\* EnhancedTodoParser: records
\* ------------------------------------------------------------------------

\* generateTodoId without its Date.now() suffix
generateTodoId(filePath, lineNumber) == <<"todo", lineNumber>>

\* parseEnhancedTodoLine raises: in a daily note, a task line without a due
\* date reaches todo.assignToDate(dailyNoteDate) with dailyNoteDate a string,
\* and date.startOf is not a function (TypeError)
parseEnhancedTodoLineThrows(line, filePath, fmt) ==
    /\ isTodoLine(line)
    /\ isDailyNote(filePath)
    /\ extractDueDate(line, fmt) = NoDate
    /\ extractDateFromDailyNote(filePath) # NoDate

\* parseEnhancedTodoLine, when it returns a record
parseEnhancedTodoLine(line, filePath, lineNumber, lines, fmt) ==
    LET basicData      == parseBasicTodoData(line)
        id             == generateTodoId(filePath, lineNumber)
        subtasks       == parseSubtasksWithComplexity(lines, lineNumber, id)
        autoPriority   == assignPriorityBySubtaskCount(Len(subtasks))
        manualPriority == extractManualPriority(line)
        finalPriority  == IF manualPriority # NoPriority THEN manualPriority ELSE autoPriority
        todo           == [NewTodoItem(id, basicData.title, basicData.description, finalPriority,
                                       filePath, lineNumber, basicData.status, subtasks,
                                       manualPriority = NoPriority)
                             EXCEPT !.tags = basicData.tags]
        dueDate        == extractDueDate(line, fmt)
    IN IF dueDate # NoDate THEN assignToDate(todo, dueDate) ELSE todo

\* the loop of parseEnhancedTodosInFile from line index i (0-based) on
RECURSIVE ParseFrom(_, _, _, _)
ParseFrom(lines, filePath, fmt, i) ==
    IF i >= Len(lines) THEN <<>>
    ELSE IF isTodoLine(lines[i + 1])
         THEN <<parseEnhancedTodoLine(lines[i + 1], filePath, i, lines, fmt)>>
              \o ParseFrom(lines, filePath, fmt, i + 1)
         ELSE ParseFrom(lines, filePath, fmt, i + 1)

\* parseEnhancedTodosInFile: the promise is rejected when a line raises,
\* otherwise it resolves to the records of the task lines, in order
parseEnhancedTodosInFile(lines, filePath, fmt) ==
    IF \E i \in 1..Len(lines) : parseEnhancedTodoLineThrows(lines[i], filePath, fmt)
    THEN [threw |-> TRUE, todos |-> <<>>]
    ELSE [threw |-> FALSE, todos |-> ParseFrom(lines, filePath, fmt, 0)]

ParentTagPrefix == <<"#","p","a","r","e","n","t","/">>

ChildTagPrefix == <<"#","c","h","i","l","d","/">>

\* what Array.find returns when no tag has the prefix
NoTag == <<>>

\* todo.tags.find(tag => tag.startsWith(prefix))
FindTag(tags, prefix) ==
    IF \E i \in 1..Len(tags) : StartsWith(tags[i], prefix)
    THEN tags[Min({i \in 1..Len(tags) : StartsWith(tags[i], prefix)})]
    ELSE NoTag

\* tag.replace(prefix, '') of a tag that starts with the prefix
RelationId(tag, prefix) == Drop(tag, Len(prefix) + 1)

\* parentMap.get(parentId) after the first pass, as an index into todos:
\* Map.set keeps the last record that carries the id; 0 when there is none
ParentMapGet(todos, parentId) ==
    LET carriers == {i \in 1..Len(todos) :
                        /\ FindTag(todos[i].tags, ParentTagPrefix) # NoTag
                        /\ RelationId(FindTag(todos[i].tags, ParentTagPrefix), ParentTagPrefix) = parentId}
    IN IF carriers = {} THEN 0 ELSE Max(carriers)

\* the parent the second pass finds for todos[i], as an index; 0 when none
LinkedParent(todos, i) ==
    LET childTag == FindTag(todos[i].tags, ChildTagPrefix)
    IN IF childTag = NoTag THEN 0 ELSE ParentMapGet(todos, RelationId(childTag, ChildTagPrefix))

\* parseParentChildRelationships(todos): the records after both passes
parseParentChildRelationships(todos) ==
    LET n == Len(todos)
        childrenOf(p) == SelectSeq([k \in 1..n |-> k], LAMBDA k : LinkedParent(todos, k) = p)
    IN [i \in 1..n |->
           [todos[i] EXCEPT
               !.parentTaskId = IF LinkedParent(todos, i) # 0 THEN todos[LinkedParent(todos, i)].id ELSE @,
               !.childTaskIds = @ \o [j \in 1..Len(childrenOf(i)) |-> todos[childrenOf(i)[j]].id]]]

\* the tags generateTodoLine writes: those not starting with '#priority/'
RECURSIVE JoinTags(_)
JoinTags(tags) == IF tags = <<>> THEN <<>>
                  ELSE (IF StartsWith(Head(tags), PriorityTagPrefix) THEN <<>>
                        ELSE <<" ">> \o Head(tags))
                       \o JoinTags(Tail(tags))

\* generateTodoLine
generateTodoLine(todo, fmt) ==
    <<"-", " ">> \o (IF todo.isCompleted THEN BoxLower ELSE <<"[", " ", "]">>) \o <<" ">> \o todo.title
    \o (IF todo.description # <<>> THEN <<" ">> \o todo.description ELSE <<>>)
    \o (IF ~todo.isAutoPriority THEN <<" ">> \o PriorityTagPrefix \o <<todo.priority>> ELSE <<>>)
    \o JoinTags(todo.tags)
    \o (IF todo.assignedDate # NoDate
        THEN <<" ">> \o FormatPrefix(fmt) \o todo.assignedDate
        ELSE <<>>)

\* ------------------------------------------------------------------------
\* TaskSuitabilityAnalyzer
\* ------------------------------------------------------------------------

ComplexityKeywords == {<<"r","e","s","e","a","r","c","h">>, <<"a","n","a","l","y","z","e">>, <<"d","e","s","i","g","n">>, <<"i","m","p","l","e","m","e","n","t">>, <<"t","e","s","t">>, <<"d","e","p","l","o","y">>, <<"m","u","l","t","i","p","l","e">>, <<"v","a","r","i","o","u","s">>, <<"s","e","v","e","r","a","l">>, <<"c","o","m","p","r","e","h","e","n","s","i","v","e">>, <<"c","o","m","p","l","e","t","e">>, <<"s","y","s","t","e","m">>, <<"p","l","a","t","f","o","r","m">>, <<"a","r","c","h","i","t","e","c","t","u","r","e">>, <<"i","n","f","r","a","s","t","r","u","c","t","u","r","e">>}

isTooComplexForSingleTask(task) ==
    \/ task.subtaskCount > 10
    \/ LET content == toLowerCase(task.title \o <<" ">> \o task.description)
       IN Cardinality({k \in ComplexityKeywords : Includes(content, k)}) >= 3

hasInconsistentSubtaskComplexity(task) ==
    IF Len(task.subtasks) < 3 THEN FALSE
    ELSE LET complexityScores == {task.subtasks[i].complexity : i \in 1..Len(task.subtasks)}
         IN Max(complexityScores) - Min(complexityScores) > 3

RECURSIVE SumComplexity(_)
SumComplexity(subtasks) == IF subtasks = <<>> THEN 0
                           ELSE Head(subtasks).complexity * 10 + SumComplexity(Tail(subtasks))

\* estimateTaskTime with 10 minutes per subtask, whatever its complexity
estimateTaskTime_PerSubtask(task) == IF Len(task.subtasks) = 0 THEN 30 ELSE 10 * Len(task.subtasks)

estimateTaskTime(task) == IF Len(task.subtasks) = 0 THEN 30 ELSE SumComplexity(task.subtasks)

\* exceedsTimeAllocationLimits with >= in place of >
exceedsTimeAllocationLimits_AtLimit(task) ==
    2 * estimateTaskTime(task) >= 3 * PRIORITY_TIME_RATIOS(task.priority)

\* estimatedTime > allocation * 1.5, in integers
exceedsTimeAllocationLimits(task) ==
    2 * estimateTaskTime(task) > 3 * PRIORITY_TIME_RATIOS(task.priority)

\* the issue types pushed by analyzeTaskSuitability, in order
IssuesOf(task) ==
    (IF isTooComplexForSingleTask(task) THEN <<[type |-> "TOO_COMPLEX", severity |-> "HIGH"]>> ELSE <<>>)
    \o (IF hasInconsistentSubtaskComplexity(task) THEN <<[type |-> "INCONSISTENT_COMPLEXITY", severity |-> "MEDIUM"]>> ELSE <<>>)
    \o (IF exceedsTimeAllocationLimits(task) THEN <<[type |-> "TIME_MISMATCH", severity |-> "HIGH"]>> ELSE <<>>)

getRecommendedAction(issues) ==
    IF \E i \in 1..Len(issues) : issues[i].severity = "HIGH" THEN "required"
    ELSE IF Len(issues) > 0 THEN "suggested"
    ELSE "none"

analyzeTaskSuitability(task) ==
    [isProblematic     |-> Len(IssuesOf(task)) > 0,
     issues            |-> IssuesOf(task),
     recommendedAction |-> getRecommendedAction(IssuesOf(task))]

\* ------------------------------------------------------------------------
\* TaskSuitabilityAnalyzer: breakdown suggestions
\* ------------------------------------------------------------------------

DesignWords == {<<"d","e","s","i","g","n">>, <<"w","i","r","e","f","r","a","m","e">>, <<"m","o","c","k","u","p">>, <<"l","a","y","o","u","t">>, <<"u","i">>, <<"u","x">>, <<"v","i","s","u","a","l">>}

ImplementationWords == {<<"i","m","p","l","e","m","e","n","t">>, <<"c","o","d","e">>, <<"d","e","v","e","l","o","p">>, <<"b","u","i","l","d">>, <<"c","r","e","a","t","e">>, <<"p","r","o","g","r","a","m">>}

TestingWords == {<<"t","e","s","t">>, <<"v","e","r","i","f","y">>, <<"c","h","e","c","k">>, <<"v","a","l","i","d","a","t","e">>, <<"q","a">>, <<"d","e","b","u","g">>}

ResearchWords == {<<"r","e","s","e","a","r","c","h">>, <<"a","n","a","l","y","z","e">>, <<"i","n","v","e","s","t","i","g","a","t","e">>, <<"s","t","u","d","y">>, <<"e","x","p","l","o","r","e">>}

DocumentationWords == {<<"d","o","c","u","m","e","n","t">>, <<"w","r","i","t","e">>, <<"u","p","d","a","t","e">>, <<"r","e","c","o","r","d">>, <<"n","o","t","e">>}

PlanningWords == {<<"p","l","a","n">>, <<"o","r","g","a","n","i","z","e">>, <<"s","c","h","e","d","u","l","e">>, <<"p","r","e","p","a","r","e">>, <<"s","e","t","u","p">>}

DeploymentWords == {<<"d","e","p","l","o","y">>, <<"r","e","l","e","a","s","e">>, <<"p","u","b","l","i","s","h">>, <<"l","a","u","n","c","h">>, <<"i","n","s","t","a","l","l">>}

categorizeSubtask(title) ==
    LET lowerTitle == toLowerCase(title)
    IN IF IncludesAny(lowerTitle, DesignWords) THEN <<"D","e","s","i","g","n">>
       ELSE IF IncludesAny(lowerTitle, ImplementationWords) THEN <<"I","m","p","l","e","m","e","n","t","a","t","i","o","n">>
       ELSE IF IncludesAny(lowerTitle, TestingWords) THEN <<"T","e","s","t","i","n","g">>
       ELSE IF IncludesAny(lowerTitle, ResearchWords) THEN <<"R","e","s","e","a","r","c","h">>
       ELSE IF IncludesAny(lowerTitle, DocumentationWords) THEN <<"D","o","c","u","m","e","n","t","a","t","i","o","n">>
       ELSE IF IncludesAny(lowerTitle, PlanningWords) THEN <<"P","l","a","n","n","i","n","g">>
       ELSE IF IncludesAny(lowerTitle, DeploymentWords) THEN <<"D","e","p","l","o","y","m","e","n","t">>
       ELSE <<"G","e","n","e","r","a","l">>

\* the keys of the Map built by groupSubtasksByType, in insertion order
RECURSIVE GroupKeys(_, _)
GroupKeys(subtasks, seen) ==
    IF subtasks = <<>> THEN <<>>
    ELSE LET type == categorizeSubtask(Head(subtasks).title)
         IN IF type \in seen THEN GroupKeys(Tail(subtasks), seen)
            ELSE <<type>> \o GroupKeys(Tail(subtasks), seen \cup {type})

\* groupSubtasksByType: the Map's entries, in insertion order
groupSubtasksByType(subtasks) ==
    LET keys == GroupKeys(subtasks, {})
    IN [k \in 1..Len(keys) |->
          [groupType |-> keys[k],
           subtasks  |-> LET InGroup(st) == categorizeSubtask(st.title) = keys[k]
                         IN SelectSeq(subtasks, InGroup)]]

\* avgComplexity >= n is sum >= n * count
suggestPriorityForGroup(subtasks) ==
    LET sum   == SumComplexity(subtasks) \div 10
        count == Len(subtasks)
    IN IF sum >= 4 * count \/ count >= 6 THEN "A"
       ELSE IF sum >= 3 * count \/ count >= 4 THEN "B"
       ELSE IF sum >= 2 * count \/ count >= 2 THEN "C"
       ELSE "D"

TitlesOf(subtasks) == [i \in 1..Len(subtasks) |-> subtasks[i].title]

\* the minimum size of a category group that becomes a suggestion
MinGroupSize == 2

\* the loop of suggestBreakdown with a group of one member accepted
RECURSIVE GroupSuggestions_SingletonGroups(_, _)
GroupSuggestions_SingletonGroups(task, groups) ==
    IF groups = <<>> THEN <<>>
    ELSE LET g == Head(groups)
         IN (IF Len(g.subtasks) >= 1
             THEN <<[title         |-> task.title \o <<" ","-"," ">> \o g.groupType,
                     priority      |-> suggestPriorityForGroup(g.subtasks),
                     subtasks      |-> TitlesOf(g.subtasks),
                     estimatedTime |-> PRIORITY_TIME_RATIOS(suggestPriorityForGroup(g.subtasks))]>>
             ELSE <<>>)
            \o GroupSuggestions_SingletonGroups(task, Tail(groups))

\* the loop of suggestBreakdown over the groups
RECURSIVE GroupSuggestions(_, _)
GroupSuggestions(task, groups) ==
    IF groups = <<>> THEN <<>>
    ELSE LET g == Head(groups)
         IN (IF Len(g.subtasks) >= MinGroupSize
             THEN <<[title         |-> task.title \o <<" ","-"," ">> \o g.groupType,
                     priority      |-> suggestPriorityForGroup(g.subtasks),
                     subtasks      |-> TitlesOf(g.subtasks),
                     estimatedTime |-> PRIORITY_TIME_RATIOS(suggestPriorityForGroup(g.subtasks))]>>
             ELSE <<>>)
            \o GroupSuggestions(task, Tail(groups))

suggestComplexityBasedBreakdown(task) ==
    LET IsHigh(st)   == st.complexity >= 4
        IsMedium(st) == st.complexity >= 2 /\ st.complexity < 4
        IsLow(st)    == st.complexity < 2
        highComplexity   == SelectSeq(task.subtasks, IsHigh)
        mediumComplexity == SelectSeq(task.subtasks, IsMedium)
        lowComplexity    == SelectSeq(task.subtasks, IsLow)
        priority         == IF Len(mediumComplexity) >= 4 THEN "B" ELSE "C"
    IN (IF Len(highComplexity) > 0
        THEN <<[title         |-> task.title \o <<" ","-"," ","C","o","m","p","l","e","x"," ","T","a","s","k","s">>,
                priority      |-> "A",
                subtasks      |-> TitlesOf(highComplexity),
                estimatedTime |-> 30]>>
        ELSE <<>>)
       \o (IF Len(mediumComplexity) > 0
           THEN <<[title         |-> task.title \o <<" ","-"," ","S","t","a","n","d","a","r","d"," ","T","a","s","k","s">>,
                   priority      |-> priority,
                   subtasks      |-> TitlesOf(mediumComplexity),
                   estimatedTime |-> PRIORITY_TIME_RATIOS(priority)]>>
           ELSE <<>>)
       \o (IF Len(lowComplexity) > 0
           THEN <<[title         |-> task.title \o <<" ","-"," ","Q","u","i","c","k"," ","T","a","s","k","s">>,
                   priority      |-> "C",
                   subtasks      |-> TitlesOf(lowComplexity),
                   estimatedTime |-> 10]>>
           ELSE <<>>)

\* the subtask count above which the complexity fallback applies
FallbackAbove == 6

suggestBreakdown(task) ==
    LET suggestions == GroupSuggestions(task, groupSubtasksByType(task.subtasks))
    IN IF Len(suggestions) = 0 /\ Len(task.subtasks) > FallbackAbove
       THEN suggestComplexityBasedBreakdown(task)
       ELSE suggestions

\* Math.abs
Abs(x) == IF x < 0 THEN 0 - x ELSE x

\* autoFixSimpleIssues correcting the tier of a manually set record as well
autoFixSimpleIssues_AlsoManual(task) ==
    LET correctPriority == assignPriorityBySubtaskCount(task.subtaskCount)
        fixPriority     == task.priority # correctPriority
        t1              == IF fixPriority THEN updatePriority(task, correctPriority, FALSE) ELSE task
        estimatedTime   == estimateTaskTime(t1)
        fixTime         == Abs(t1.estimatedTime - estimatedTime) > 10
        t2              == IF fixTime THEN [t1 EXCEPT !.estimatedTime = estimatedTime] ELSE t1
    IN [task  |-> t2,
        value |-> [fixed   |-> fixPriority \/ fixTime,
                   changes |-> (IF fixPriority THEN <<[updated |-> "priority", to |-> correctPriority]>> ELSE <<>>)
                               \o (IF fixTime THEN <<[updated |-> "estimatedTime", to |-> estimatedTime]>> ELSE <<>>)]]

\* autoFixSimpleIssues(task): the record after the call and the value
\* returned; a change is written as what was updated and its new value
autoFixSimpleIssues(task) ==
    LET correctPriority == assignPriorityBySubtaskCount(task.subtaskCount)
        fixPriority     == task.priority # correctPriority /\ task.isAutoPriority
        t1              == IF fixPriority THEN updatePriority(task, correctPriority, FALSE) ELSE task
        estimatedTime   == estimateTaskTime(t1)
        fixTime         == Abs(t1.estimatedTime - estimatedTime) > 10
        t2              == IF fixTime THEN [t1 EXCEPT !.estimatedTime = estimatedTime] ELSE t1
    IN [task  |-> t2,
        value |-> [fixed   |-> fixPriority \/ fixTime,
                   changes |-> (IF fixPriority THEN <<[updated |-> "priority", to |-> correctPriority]>> ELSE <<>>)
                               \o (IF fixTime THEN <<[updated |-> "estimatedTime", to |-> estimatedTime]>> ELSE <<>>)]]

\* ------------------------------------------------------------------------
\* The plugin (main.ts)
\* ------------------------------------------------------------------------

\* the index of the first match of /\[[ x]\]/i in the line, 0 when none
CheckboxAt(line) ==
    LET hits == {i \in 1..(Len(line) - 2) : /\ line[i] = "["
                                            /\ line[i + 1] \in {" ", "x", "X"}
                                            /\ line[i + 2] = "]"}
    IN IF hits = {} THEN 0 ELSE Min(hits)

\* currentLine.replace(/\[[ x]\]/i, newStatus)
ReplaceCheckbox(line, newStatus) ==
    IF CheckboxAt(line) = 0 THEN line
    ELSE SubSeq(line, 1, CheckboxAt(line) - 1) \o newStatus \o Drop(line, CheckboxAt(line) + 3)

\* if (todo.isCompleted) todo.markTodo() else todo.markCompleted()
FlipStatus(todo, now) == IF todo.isCompleted THEN markTodo(todo) ELSE markCompleted(todo, now)

\* what the vault does on a call of toggleTaskStatus: the file is gone, the
\* read throws, the write throws, or both succeed
VaultFaults == {"none", "missing", "read", "modify"}

\* parseFileForTodos(file) on the stored entry of the file: the parse of the
\* content, the entry left alone when the parse throws
parseFileForTodos(entry, lines, path, fmt) ==
    IF parseEnhancedTodosInFile(lines, path, fmt).threw THEN entry
    ELSE parseEnhancedTodosInFile(lines, path, fmt).todos

\* toggleTaskStatus(todo) on a file of the given lines: the record, the lines
\* of the file and the entry of the todos map after the call, and the Notice
toggleTaskStatus(todo, lines, entry, fault, fmt, now) ==
    LET same(notice) == [todo |-> todo, lines |-> lines, entry |-> entry, notice |-> notice]
        failed == [todo |-> FlipStatus(todo, now), lines |-> lines, entry |-> entry,
                   notice |-> "Failed to update task status"]
        newLine == ReplaceCheckbox(lines[todo.lineNumber + 1],
                                   IF todo.isCompleted THEN <<"[", " ", "]">> ELSE BoxLower)
        newLines == [lines EXCEPT ![todo.lineNumber + 1] = newLine]
    IN IF fault = "missing" THEN same("File not found for task")
       ELSE IF fault = "read" THEN failed
       ELSE IF todo.lineNumber + 1 > Len(lines) \/ lines[todo.lineNumber + 1] = <<>>
            THEN same("Task line not found in file")
       ELSE IF fault = "modify" THEN failed
       ELSE [todo   |-> FlipStatus(todo, now),
             lines  |-> newLines,
             entry  |-> parseFileForTodos(entry, newLines, todo.sourceFilePath, fmt),
             notice |-> IF FlipStatus(todo, now).isCompleted THEN "Task completed" ELSE "Task reopened"]

\* null: the value of endOfDayTimeout when no timer is set, and what
\* WeeklyScheduleManager.scheduleEndOfDayCheck returns when it sets none
NoTimer == 0

\* date.weekday % 7 of a day, day 0 being a Monday
DayOfWeek(day) == (day + 1) % 7

\* WeeklyScheduleManager.isWorkDay under DEFAULT_WEEKLY_SCHEDULE
isWorkDay(day) == DayOfWeek(day) \in 1..5

\* the handle setTimeout returns: one that no pending timer has
NewTimerId(pending) == Min({i \in 1..(Cardinality(pending) + 1) : \A t \in pending : t.id # i})

\* WeeklyScheduleManager.scheduleEndOfDayCheck(callback) at the instant now:
\* the timer it sets, due at the end-of-day time of the day, or null
setEndOfDayTimer(now, pending) ==
    IF ~now.late /\ isWorkDay(now.day)
    THEN [id |-> NewTimerId(pending), due |-> now.day]
    ELSE [id |-> NoTimer, due |-> now.day]

\* the plugin's scheduleEndOfDayCheck(): its handle and the pending timers
\* after the call
scheduleEndOfDayCheck(enabled, timeout, pending, now) ==
    IF ~enabled THEN [endOfDayTimeout |-> timeout, timers |-> pending]
    ELSE LET cleared == {t \in pending : t.id # timeout}
             set == setEndOfDayTimer(now, cleared)
         IN [endOfDayTimeout |-> set.id,
             timers          |-> IF set.id = NoTimer THEN cleared ELSE cleared \cup {set}]

\* performEndOfDayCheck() with the given number of incomplete tasks assigned
\* to today: whether the Notice is shown, and the timers after the call
performEndOfDayCheck(enabled, timeout, pending, now, incomplete) ==
    [notice |-> incomplete > 0,
     timers |-> scheduleEndOfDayCheck(enabled, timeout, pending, now)]

\* setTimeout: a timer may fire once its due instant has been reached
IsDue(timer, now) == now.day > timer.due \/ (now.day = timer.due /\ now.late)

\* the todos map: Map.set, Map.delete and the map after Map.clear
MapSet(map, key, value) == [k \in DOMAIN map \cup {key} |-> IF k = key THEN value ELSE map[k]]

MapDelete(map, key) == [k \in DOMAIN map \ {key} |-> map[k]]

EmptyMap == [k \in {} |-> <<>>]

\* getAllTodos(): the records of every entry of the map
getAllTodos(map) == UNION {Range(map[k]) : k \in DOMAIN map}

\* a handler in flight: handleFileModified or handleFileCreated ("file") or
\* parseAllTodos ("all"), in parseFileForTodos for a path, awaiting
\* cachedRead ("reading") or holding the content it read ("parsing"); rest
\* is what is left of the file list of parseAllTodos
NoHandler == [kind |-> "none", stage |-> "none", path |-> <<>>, lines |-> <<>>, rest |-> <<>>]

\* the handler after parseFileForTodos has returned: parseAllTodos goes on
\* with its next file, the event handlers are done
AfterParseFile(handler) ==
    IF handler.kind = "all" /\ handler.rest # <<>>
    THEN [handler EXCEPT !.stage = "reading", !.path = Head(handler.rest), !.lines = <<>>,
                         !.rest = Tail(handler.rest)]
    ELSE NoHandler

\* parseAllTodos() up to its first await: the handler over the file list
\* getMarkdownFiles() returned
StartParseAll(paths) ==
    IF paths = <<>> THEN NoHandler
    ELSE [kind |-> "all", stage |-> "reading", path |-> Head(paths), lines |-> <<>>, rest |-> Tail(paths)]

\* ------------------------------------------------------------------------
\* Inputs: documents, file paths and date-tag formats
\* ------------------------------------------------------------------------

\* the longest document built freely from LineVocab
MaxDocLines == 3

\* the most tags appended to the tagged task line
MaxTags == 2

\* "- [ ] Plan vacation"
L_PlanVacation == <<"-"," ","["," ","]"," ","P","l","a","n"," ","v","a","c","a","t","i","o","n">>

\* "  - [ ] Book flights"
L_BookFlights == <<" "," ","-"," ","["," ","]"," ","B","o","o","k"," ","f","l","i","g","h","t","s">>

\* "  - [ ] Reserve hotel"
L_ReserveHotel == <<" "," ","-"," ","["," ","]"," ","R","e","s","e","r","v","e"," ","h","o","t","e","l">>

\* "  - [ ] Plan itinerary"
L_PlanItinerary == <<" "," ","-"," ","["," ","]"," ","P","l","a","n"," ","i","t","i","n","e","r","a","r","y">>

\* "  - [ ] Research visa requirements"
L_ResearchVisa == <<" "," ","-"," ","["," ","]"," ","R","e","s","e","a","r","c","h"," ","v","i","s","a"," ","r","e","q","u","i","r","e","m","e","n","t","s">>

\* the document of the specification's end-to-end example
ExampleDocument == <<L_PlanVacation, L_BookFlights, L_ReserveHotel, L_PlanItinerary, L_ResearchVisa>>

\* "- [ ] Write report"
L_WriteReport == <<"-"," ","["," ","]"," ","W","r","i","t","e"," ","r","e","p","o","r","t">>

\* "  - [ ] Check and update docs"
L_CheckDocs == <<" "," ","-"," ","["," ","]"," ","C","h","e","c","k"," ","a","n","d"," ","u","p","d","a","t","e"," ","d","o","c","s">>

\* "    - [x] Call Bob"
L_CallBob == <<" "," "," "," ","-"," ","[","x","]"," ","C","a","l","l"," ","B","o","b">>

\* "- [X] Ship it"
L_ShipIt == <<"-"," ","[","X","]"," ","S","h","i","p"," ","i","t">>

\* "-  [ ] Fix bug" (two spaces after the bullet)
L_FixBug == <<"-"," "," ","["," ","]"," ","F","i","x"," ","b","u","g">>

\* " - [ ] Pay rent" (one space of indentation)
L_PayRent == <<" ","-"," ","["," ","]"," ","P","a","y"," ","r","e","n","t">>

\* "Some notes"
L_Prose == <<"S","o","m","e"," ","n","o","t","e","s">>

L_Blank == <<>>

LineVocab == {L_WriteReport, L_CheckDocs, L_CallBob, L_ShipIt, L_FixBug, L_PayRent, L_Prose, L_Blank}

GenericDocs == UNION {[1..n -> LineVocab] : n \in 1..MaxDocLines}

\* "- [ ] Task"
L_Task == <<"-"," ","["," ","]"," ","T","a","s","k">>

TagVocab == {<<"#","A">>, <<"#","p","r","i","o","r","i","t","y","/","B">>, <<"#","p","r","i","o","r","i","t","y","/","c">>, <<"#","p","r","i","o","r","i","t","y","/","C","r","i","t","i","c","a","l">>, <<"#","p","r","i","o","r","i","t","y","/","E">>,
             <<"#","D","x">>, <<"#","h","o","m","e">>, <<"#","2","0","2","4","-","0","1","-","1","5">>, <<"#","2","0","2","4","-","1","3","-","4","5">>, <<"2","0","2","4","-","0","3","-","1","0">>}

RECURSIVE AppendWords(_, _)
AppendWords(line, words) == IF words = <<>> THEN line
                            ELSE AppendWords(line \o <<" ">> \o Head(words), Tail(words))

\* the task line "- [ ] Task" followed by up to MaxTags of the words of TagVocab
TaggedLines == {AppendWords(L_Task, ws) : ws \in UNION {[1..n -> TagVocab] : n \in 0..MaxTags}}

\* a tagged task line alone, or followed by the first two subtasks of the example
TaggedDocs == {<<l>> : l \in TaggedLines} \cup {<<l, L_BookFlights, L_ReserveHotel>> : l \in TaggedLines}

\* "- [ ] Big project"
L_BigProject == <<"-"," ","["," ","]"," ","B","i","g"," ","p","r","o","j","e","c","t">>

\* subtask lines of eight different categories of categorizeSubtask
Catalogue == <<<<" "," ","-"," ","["," ","]"," ","S","k","e","t","c","h"," ","w","i","r","e","f","r","a","m","e">>,
               <<" "," ","-"," ","["," ","]"," ","C","o","d","e"," ","p","a","r","s","e","r">>,
               <<" "," ","-"," ","["," ","]"," ","D","e","b","u","g"," ","c","r","a","s","h">>,
               <<" "," ","-"," ","["," ","]"," ","I","n","v","e","s","t","i","g","a","t","e"," ","a","n","d"," ","a","n","a","l","y","z","e"," ","l","o","g","s">>,
               <<" "," ","-"," ","["," ","]"," ","R","e","c","o","r","d"," ","d","e","m","o">>,
               <<" "," ","-"," ","["," ","]"," ","O","r","g","a","n","i","z","e"," ","f","i","l","e","s">>,
               <<" "," ","-"," ","["," ","]"," ","P","u","b","l","i","s","h"," ","p","a","c","k","a","g","e">>,
               <<" "," ","-"," ","["," ","]"," ","B","u","y"," ","m","i","l","k">>>>

\* the entries of s whose index is in idx, in order
RECURSIVE Pick(_, _, _)
Pick(s, idx, i) == IF i > Len(s) THEN <<>>
                   ELSE (IF i \in idx THEN <<s[i]>> ELSE <<>>) \o Pick(s, idx, i + 1)

\* "- [ ] Big project" followed by any selection of the catalogue's lines
ProjectDocs == {<<L_BigProject>> \o Pick(Catalogue, idx, 1) : idx \in SUBSET (1..Len(Catalogue))}

Documents == GenericDocs \cup TaggedDocs \cup ProjectDocs \cup {ExampleDocument}

\* "notes/todo.md"
P_Notes == <<"n","o","t","e","s","/","t","o","d","o",".","m","d">>

\* "daily/2024-01-15.md"
P_DailyYmd == <<"d","a","i","l","y","/","2","0","2","4","-","0","1","-","1","5",".","m","d">>

\* "20240115.md"
P_DailyCompact == <<"2","0","2","4","0","1","1","5",".","m","d">>

FilePaths == {P_Notes, P_DailyYmd, P_DailyCompact}

\* '#%date%', the default of the settings
F_Default == <<"#","%","d","a","t","e","%">>

\* '#due/%date%', the fallback of the settings form
F_Due == <<"#","d","u","e","/","%","d","a","t","e","%">>

DateTagFormats == {F_Default, F_Due}

\* every document in an ordinary note with the default format, and the
\* one-line documents under every file path and format
Inputs == {<<d, P_Notes, F_Default>> : d \in Documents}
          \cup {<<<<l>>, p, f>> : l \in TaggedLines, p \in FilePaths, f \in DateTagFormats}

\* ------------------------------------------------------------------------
\* State
\* ------------------------------------------------------------------------

VARIABLES
    content,        \* the lines of the document being parsed
    filePath,       \* file.path
    dateTagFormat,  \* the parser's dateTagFormat
    pc,             \* "idle", "parsed", "threw", "analyzed", "suggested", "written", "reparsed"
    todos,          \* the records parseEnhancedTodosInFile returned
    ret,            \* the last call on a record and what it returned
    rewritten,      \* the lines generateTodoLine gave for the records
    reparsed,       \* the outcome of parsing the rewritten lines
    todo,           \* the record the record operations are called on
    rescheduleWarningThreshold,  \* the setting of that name
    arg,            \* the argument of a call of a pure function
    enableEndOfDayNotifications,  \* the setting of that name
    endOfDayTimeout,  \* the plugin's handle of its end-of-day timer, or NoTimer
    timers,         \* the timers set with setTimeout and neither fired nor cleared
    clock,          \* DateTime.now(): the day, and whether its end-of-day time has passed
    files,          \* the markdown files of the vault, by path: whether the file exists, its
                    \* lines, and how often it has been modified and created
    todosMap,       \* the plugin's todos map: the records stored for a path
    handlers        \* the asynchronous handlers in flight, awaiting a read or its parse

\* the state of the plugin object (main.ts)
pluginVars == <<enableEndOfDayNotifications, endOfDayTimeout, timers, clock, files, todosMap, handlers>>

vars == <<content, filePath, dateTagFormat, pc, todos, ret, rewritten, reparsed,
          todo, rescheduleWarningThreshold, arg, pluginVars>>

\* the plugin is not part of the run: default settings, no timer, no file
PluginNotLoaded ==
    /\ enableEndOfDayNotifications = TRUE
    /\ endOfDayTimeout = NoTimer
    /\ timers = {}
    /\ clock = [day |-> 0, late |-> FALSE]
    /\ files = EmptyMap
    /\ todosMap = EmptyMap
    /\ handlers = <<>>

\* no record chosen; no argument given
NoTask == [id |-> <<>>]

NoArg == [fn |-> "none"]

NoCall == [op |-> "none", task |-> 0, value |-> <<>>]

Init == /\ \E in \in Inputs : /\ content = in[1]
                              /\ filePath = in[2]
                              /\ dateTagFormat = in[3]
        /\ pc = "idle"
        /\ todos = <<>>
        /\ ret = NoCall
        /\ rewritten = <<>>
        /\ reparsed = [threw |-> FALSE, todos |-> <<>>]
        /\ todo = NoTask
        /\ rescheduleWarningThreshold = 3
        /\ arg = NoArg
        /\ PluginNotLoaded

\* parseEnhancedTodosInFile(file, content)
ParseFile ==
    /\ pc = "idle"
    /\ LET r == parseEnhancedTodosInFile(content, filePath, dateTagFormat)
       IN /\ pc' = IF r.threw THEN "threw" ELSE "parsed"
          /\ todos' = r.todos
    /\ UNCHANGED <<content, filePath, dateTagFormat, ret, rewritten, reparsed, todo, rescheduleWarningThreshold, arg, pluginVars>>

\* TaskSuitabilityAnalyzer.analyzeTaskSuitability(todo)
Analyze ==
    /\ pc = "parsed"
    /\ \E i \in 1..Len(todos) :
          ret' = [op |-> "analyzeTaskSuitability", task |-> i, value |-> analyzeTaskSuitability(todos[i])]
    /\ pc' = "analyzed"
    /\ UNCHANGED <<content, filePath, dateTagFormat, todos, rewritten, reparsed, todo, rescheduleWarningThreshold, arg, pluginVars>>

\* TaskSuitabilityAnalyzer.suggestBreakdown(todo)
SuggestBreakdown ==
    /\ pc = "parsed"
    /\ \E i \in 1..Len(todos) :
          ret' = [op |-> "suggestBreakdown", task |-> i, value |-> suggestBreakdown(todos[i])]
    /\ pc' = "suggested"
    /\ UNCHANGED <<content, filePath, dateTagFormat, todos, rewritten, reparsed, todo, rescheduleWarningThreshold, arg, pluginVars>>

\* generateTodoLine on every record, the lines rejoined in order
WriteBack ==
    /\ pc = "parsed"
    /\ rewritten' = [i \in 1..Len(todos) |-> generateTodoLine(todos[i], dateTagFormat)]
    /\ pc' = "written"
    /\ UNCHANGED <<content, filePath, dateTagFormat, todos, ret, reparsed, todo, rescheduleWarningThreshold, arg, pluginVars>>

\* parseEnhancedTodosInFile on the rewritten lines
Reparse ==
    /\ pc = "written"
    /\ reparsed' = parseEnhancedTodosInFile(rewritten, filePath, dateTagFormat)
    /\ pc' = "reparsed"
    /\ UNCHANGED <<content, filePath, dateTagFormat, todos, ret, rewritten, todo, rescheduleWarningThreshold, arg, pluginVars>>

Next == ParseFile \/ Analyze \/ SuggestBreakdown \/ WriteBack \/ Reparse

Spec == Init /\ [][Next]_vars

\* ------------------------------------------------------------------------
\* The life of one record
\* ------------------------------------------------------------------------

\* the most subtasks addSubtask is let to build up
MaxSubtasks == 2

\* the most reschedule events addRescheduleEvent is let to build up
MaxReschedules == 3

\* "- [ ] Task #A"
L_TaskA == <<"-"," ","["," ","]"," ","T","a","s","k"," ","#","A">>

\* the documents the records come from
SeedDocuments == {<<L_TaskA, L_BookFlights>>, <<L_CallBob>>}

\* the values the rescheduleWarningThreshold setting is given (default 3)
Thresholds == {1, 2, 3, 4, 5}

\* what DateTime.now() returns to the calls
Instants == {<<"2","0","2","4","-","0","1","-","1","5","T","0","9",":","0","0">>}

\* the dates a record is rescheduled or assigned to
TargetDates == {<<"2","0","2","4","-","0","1","-","1","7">>}

\* the title and the complexities addSubtask is called with (1 is its default)
NewSubtaskTitle == <<"B","u","y"," ","m","i","l","k">>

NewSubtaskComplexities == {1}

\* the reason given to addRescheduleEvent
Reason == <<"b","u","s","y">>

\* an id no subtask has
UnknownId == <<"unknown">>

Call(op, value) == [op |-> op, task |-> 0, value |-> value]

\* a record as the parser created it
RecordCreated ==
    /\ \E d \in SeedDocuments :
          /\ content = d
          /\ todos = parseEnhancedTodosInFile(d, P_Notes, F_Default).todos
          /\ \E i \in 1..Len(todos) : todo = todos[i]
    /\ filePath = P_Notes
    /\ dateTagFormat = F_Default
    /\ pc = "record"
    /\ ret = NoCall
    /\ rewritten = <<>>
    /\ reparsed = [threw |-> FALSE, todos |-> <<>>]
    /\ arg = NoArg
    /\ PluginNotLoaded

\* the setting at its default
RecordInit == RecordCreated /\ rescheduleWarningThreshold = 3

\* the setting at any of its values
ScheduleInit == RecordCreated /\ rescheduleWarningThreshold \in Thresholds

\* what no operation on the record changes
RecordFrame == UNCHANGED <<content, filePath, dateTagFormat, todos, rescheduleWarningThreshold, arg, pluginVars>>

\* todo.updatePriority(newPriority, isManual)
UpdatePriority ==
    /\ pc = "record"
    /\ \E newPriority \in TaskPriority, isManual \in BOOLEAN :
          todo' = updatePriority(todo, newPriority, isManual)
    /\ ret' = NoCall
    /\ UNCHANGED <<pc, rewritten, reparsed>>
    /\ RecordFrame

\* TaskSuitabilityAnalyzer.autoFixSimpleIssues(todo)
AutoFix ==
    /\ pc = "record"
    /\ todo' = autoFixSimpleIssues(todo).task
    /\ ret' = Call("autoFixSimpleIssues", autoFixSimpleIssues(todo).value)
    /\ UNCHANGED <<pc, rewritten, reparsed>>
    /\ RecordFrame

\* AutoPriorityAssigner.updateTaskPriority(todo, forceRecalculate)
UpdateTaskPriority ==
    /\ pc = "record"
    /\ \E forceRecalculate \in BOOLEAN :
          /\ todo' = updateTaskPriority(todo, forceRecalculate).task
          /\ ret' = Call("updateTaskPriority", updateTaskPriority(todo, forceRecalculate).value)
    /\ UNCHANGED <<pc, rewritten, reparsed>>
    /\ RecordFrame

\* todo.markCompleted()
MarkCompleted ==
    /\ pc = "record"
    /\ \E now \in Instants : todo' = markCompleted(todo, now)
    /\ ret' = NoCall
    /\ UNCHANGED <<pc, rewritten, reparsed>>
    /\ RecordFrame

\* todo.markTodo()
MarkTodo ==
    /\ pc = "record"
    /\ todo' = markTodo(todo)
    /\ ret' = NoCall
    /\ UNCHANGED <<pc, rewritten, reparsed>>
    /\ RecordFrame

\* todo.addRescheduleEvent(fromDate, toDate, reason)
AddRescheduleEvent ==
    /\ pc = "record"
    /\ todo.rescheduleCount < MaxReschedules
    /\ \E toDate \in TargetDates, now \in Instants :
          todo' = addRescheduleEvent(todo, todo.assignedDate, toDate, Reason, now)
    /\ ret' = NoCall
    /\ UNCHANGED <<pc, rewritten, reparsed>>
    /\ RecordFrame

\* todo.addSubtask(title, complexity)
AddSubtask ==
    /\ pc = "record"
    /\ Len(todo.subtasks) < MaxSubtasks
    /\ \E complexity \in NewSubtaskComplexities :
          /\ todo' = addSubtask(todo, NewSubtaskTitle, complexity)
          /\ ret' = Call("addSubtask", todo'.subtasks[Len(todo'.subtasks)].id)
    /\ UNCHANGED <<pc, rewritten, reparsed>>
    /\ RecordFrame

\* todo.removeSubtask(subtaskId)
RemoveSubtask ==
    /\ pc = "record"
    /\ \E subtaskId \in {todo.subtasks[i].id : i \in 1..Len(todo.subtasks)} \cup {UnknownId} :
          /\ todo' = removeSubtask(todo, subtaskId).task
          /\ ret' = Call("removeSubtask", removeSubtask(todo, subtaskId).value)
    /\ UNCHANGED <<pc, rewritten, reparsed>>
    /\ RecordFrame

\* todo.assignToDate(date)
AssignToDate ==
    /\ pc = "record"
    /\ \E date \in TargetDates : todo' = assignToDate(todo, date)
    /\ ret' = NoCall
    /\ UNCHANGED <<pc, rewritten, reparsed>>
    /\ RecordFrame

\* generateTodoLine(todo), and parseEnhancedTodosInFile on the line it gave
SerializeAndReparse ==
    /\ pc = "record"
    /\ rewritten' = <<generateTodoLine(todo, dateTagFormat)>>
    /\ reparsed' = parseEnhancedTodosInFile(rewritten', filePath, dateTagFormat)
    /\ pc' = "reparsed"
    /\ UNCHANGED <<todo, ret>>
    /\ RecordFrame

RecordNext == \/ UpdatePriority \/ AutoFix \/ UpdateTaskPriority
              \/ MarkCompleted \/ MarkTodo \/ AddRescheduleEvent
              \/ AddSubtask \/ RemoveSubtask \/ AssignToDate

RecordSpec == RecordInit /\ [][RecordNext]_vars

\* the life of a record without any update of its priority
LifecycleNext == AddSubtask \/ RemoveSubtask \/ MarkCompleted \/ MarkTodo \/ AddRescheduleEvent

LifecycleSpec == RecordInit /\ [][LifecycleNext]_vars

\* the priority updates of a record, and writing it back
PriorityNext == UpdatePriority \/ AutoFix \/ UpdateTaskPriority \/ SerializeAndReparse

PrioritySpec == RecordInit /\ [][PriorityNext]_vars

\* the scheduling of a record, under every value of the setting
ScheduleNext == AddRescheduleEvent \/ AssignToDate

ScheduleSpec == ScheduleInit /\ [][ScheduleNext]_vars

\* ------------------------------------------------------------------------
\* Calls of the pure functions
\* ------------------------------------------------------------------------

\* the largest subtask count assignPriorityBySubtaskCount is called with
MaxCount == 12

\* words of each lexical band of calculateSubtaskComplexity, and one of none
BandWords == <<<<"c","h","e","c","k">>, <<"u","p","d","a","t","e">>, <<"d","e","s","i","g","n">>, <<"d","e","p","l","o","y">>, <<"m","u","l","t","i","p","l","e">>, <<"a","d","v","a","n","c","e","d">>, <<"m","i","l","k">>>>

\* the words of BandWords at the indexes of idx from i on, in order, each
\* followed by a space
RECURSIVE JoinWords(_, _)
JoinWords(idx, i) == IF i > Len(BandWords) THEN <<>>
                     ELSE (IF i \in idx THEN BandWords[i] \o <<" ">> ELSE <<>>) \o JoinWords(idx, i + 1)

\* the texts calculateSubtaskComplexity is called with: titles, and subtask
\* lines as parseSubtasksWithComplexity passes them
Texts == {JoinWords(idx, 1) : idx \in SUBSET (1..Len(BandWords))}
         \cup {<<"-"," ","["," ","]"," ">> \o JoinWords(idx, 1) : idx \in SUBSET (1..Len(BandWords))}

CalcInit ==
    /\ arg \in [fn : {"assignPriorityBySubtaskCount"}, subtaskCount : 0..MaxCount]
               \cup [fn : {"calculateSubtaskComplexity"}, subtaskTitle : Texts]
    /\ pc = "call"
    /\ ret = NoCall
    /\ content = <<>>
    /\ filePath = P_Notes
    /\ dateTagFormat = F_Default
    /\ todos = <<>>
    /\ rewritten = <<>>
    /\ reparsed = [threw |-> FALSE, todos |-> <<>>]
    /\ todo = NoTask
    /\ rescheduleWarningThreshold = 3
    /\ PluginNotLoaded

CalcFrame == UNCHANGED <<content, filePath, dateTagFormat, todos, rewritten, reparsed,
                         todo, rescheduleWarningThreshold, arg, pluginVars>>

\* AutoPriorityAssigner.assignPriorityBySubtaskCount(subtaskCount)
AssignPriority ==
    /\ pc = "call"
    /\ arg.fn = "assignPriorityBySubtaskCount"
    /\ ret' = Call(arg.fn, assignPriorityBySubtaskCount(arg.subtaskCount))
    /\ pc' = "returned"
    /\ CalcFrame

\* AutoPriorityAssigner.calculateSubtaskComplexity(subtaskTitle)
CalculateComplexity ==
    /\ pc = "call"
    /\ arg.fn = "calculateSubtaskComplexity"
    /\ ret' = Call(arg.fn, calculateSubtaskComplexity(arg.subtaskTitle))
    /\ pc' = "returned"
    /\ CalcFrame

CalcNext == AssignPriority \/ CalculateComplexity

CalcSpec == CalcInit /\ [][CalcNext]_vars

\* ------------------------------------------------------------------------
\* The analyzer on parsed tasks of every tier and subtask complexity
\* ------------------------------------------------------------------------

\* the largest number of subtask lines under the analysed task
MaxScoredSubtasks == 6

\* subtask lines that calculateSubtaskComplexity scores 1, 2, 3, 4 and 5
ScoredLines == <<<<" "," ","-"," ","["," ","]"," ","B","u","y"," ","m","i","l","k">>,
                 <<" "," ","-"," ","["," ","]"," ","F","i","x"," ","t","y","p","o">>,
                 <<" "," ","-"," ","["," ","]"," ","D","e","s","i","g","n"," ","l","o","g","o">>,
                 <<" "," ","-"," ","["," ","]"," ","D","e","p","l","o","y"," ","a","p","p">>,
                 <<" "," ","-"," ","["," ","]"," ","D","e","p","l","o","y"," ","u","p","d","a","t","e">>>>

\* the task line: no override tag (automatic tier) or one of the four tiers
TierLines == {L_Task, L_TaskA, <<"-"," ","["," ","]"," ","T","a","s","k"," ","#","B">>, <<"-"," ","["," ","]"," ","T","a","s","k"," ","#","C">>, <<"-"," ","["," ","]"," ","T","a","s","k"," ","#","D">>}

\* the choices of subtask lines, as indices into ScoredLines in ascending order
ScoredChoices == UNION {{s \in [1..n -> 1..Len(ScoredLines)] : \A i \in 1..(n - 1) : s[i] <= s[i + 1]}
                        : n \in 0..MaxScoredSubtasks}

\* a task line followed by the chosen subtask lines
ScoredDocs == {<<l>> \o [i \in 1..Len(s) |-> ScoredLines[s[i]]] : l \in TierLines, s \in ScoredChoices}

SuitabilityInit == /\ content \in ScoredDocs
                   /\ filePath = P_Notes
                   /\ dateTagFormat = F_Default
                   /\ pc = "idle"
                   /\ todos = <<>>
                   /\ ret = NoCall
                   /\ rewritten = <<>>
                   /\ reparsed = [threw |-> FALSE, todos |-> <<>>]
                   /\ todo = NoTask
                   /\ rescheduleWarningThreshold = 3
                   /\ arg = NoArg
                   /\ PluginNotLoaded

SuitabilityNext == ParseFile \/ Analyze

SuitabilitySpec == SuitabilityInit /\ [][SuitabilityNext]_vars

\* ------------------------------------------------------------------------

\* Linking the records of a batch by their relationship tags
\* ------------------------------------------------------------------------

\* the largest number of task lines in a batch
MaxBatch == 3

\* the largest number of calls of parseParentChildRelationships on a batch
MaxLinkRuns == 2

\* task lines with a parent tag, a child tag of the same id, a child tag of
\* an id no record declares, and no relationship tag
LinkLines == {<<"-"," ","["," ","]"," ","T","a","s","k"," ","#","p","a","r","e","n","t","/","p">>, <<"-"," ","["," ","]"," ","T","a","s","k"," ","#","c","h","i","l","d","/","p">>, <<"-"," ","["," ","]"," ","T","a","s","k"," ","#","c","h","i","l","d","/","q">>, L_Task}

LinkDocs == UNION {[1..n -> LinkLines] : n \in 1..MaxBatch}

LinkInit == /\ content \in LinkDocs
            /\ filePath = P_Notes
            /\ dateTagFormat = F_Default
            /\ pc = "idle"
            /\ todos = <<>>
            /\ ret = NoCall
            /\ rewritten = <<>>
            /\ reparsed = [threw |-> FALSE, todos |-> <<>>]
            /\ todo = NoTask
            /\ rescheduleWarningThreshold = 3
            /\ arg = NoArg
            /\ PluginNotLoaded

\* the number of calls of parseParentChildRelationships made on the batch
LinkRuns == IF ret.op = "parseParentChildRelationships" THEN ret.value ELSE 0

\* parseParentChildRelationships(todos) on the parsed batch
LinkRelationships ==
    /\ pc \in {"parsed", "linked"}
    /\ LinkRuns < MaxLinkRuns
    /\ todos' = parseParentChildRelationships(todos)
    /\ ret' = Call("parseParentChildRelationships", LinkRuns + 1)
    /\ pc' = "linked"
    /\ UNCHANGED <<content, filePath, dateTagFormat, rewritten, reparsed, todo, rescheduleWarningThreshold, arg, pluginVars>>

LinkNext == ParseFile \/ LinkRelationships

LinkSpec == LinkInit /\ [][LinkNext]_vars

\* ------------------------------------------------------------------------

\* Toggling a task from the view (main.ts)
\* ------------------------------------------------------------------------

\* the largest number of lines of the file a task is toggled in
MaxToggleLines == 2

ToggleDocs == UNION {[1..n -> LineVocab] : n \in 1..MaxToggleLines}

\* a file parsed into the todos map and one of its records shown in the view
ToggleInit == /\ content \in ToggleDocs
              /\ filePath = P_Notes
              /\ dateTagFormat = F_Default
              /\ todos = parseFileForTodos(<<>>, content, filePath, dateTagFormat)
              /\ \E i \in 1..Len(todos) : todo = todos[i]
              /\ pc = "record"
              /\ ret = NoCall
              /\ rewritten = <<>>
              /\ reparsed = [threw |-> FALSE, todos |-> <<>>]
              /\ rescheduleWarningThreshold = 3
              /\ arg = NoArg
              /\ PluginNotLoaded

\* toggleTaskStatus(todo), the click on the checkbox of a task in the view
ToggleTaskStatus ==
    /\ pc = "record"
    /\ \E fault \in VaultFaults : \E now \in Instants :
          LET r == toggleTaskStatus(todo, content, todos, fault, dateTagFormat, now)
          IN /\ todo' = r.todo
             /\ content' = r.lines
             /\ todos' = r.entry
             /\ ret' = Call("toggleTaskStatus", r.notice)
    /\ UNCHANGED <<filePath, dateTagFormat, pc, rewritten, reparsed, rescheduleWarningThreshold, arg, pluginVars>>

ToggleNext == ToggleTaskStatus

ToggleSpec == ToggleInit /\ [][ToggleNext]_vars

\* ------------------------------------------------------------------------

\* The plugin: its end-of-day timer
\* ------------------------------------------------------------------------

\* the last day the clock reaches; day 0 is a Monday
MaxDays == 6

\* the numbers of incomplete tasks assigned to today that the check may find
IncompleteCounts == {0, 1}

\* the variables of the parser and the records, which the plugin's timers
\* and handlers leave alone
CoreIdle ==
    /\ content = <<>>
    /\ filePath = P_Notes
    /\ dateTagFormat = F_Default
    /\ pc = "loaded"
    /\ todos = <<>>
    /\ ret = NoCall
    /\ rewritten = <<>>
    /\ reparsed = [threw |-> FALSE, todos |-> <<>>]
    /\ todo = NoTask
    /\ rescheduleWarningThreshold = 3
    /\ arg = NoArg

CoreFrame == UNCHANGED <<content, filePath, dateTagFormat, pc, todos, rewritten, reparsed, todo,
                         rescheduleWarningThreshold, arg>>

\* the handlers in flight and the slots free for one more
MaxHandlers == 2

FreeSlots == {h \in 1..MaxHandlers : handlers[h] = NoHandler}

\* the existing markdown files, as getMarkdownFiles() lists them
RECURSIVE ListOf(_)
ListOf(S) == IF S = {} THEN <<>> ELSE LET x == CHOOSE y \in S : TRUE IN <<x>> \o ListOf(S \ {x})

getMarkdownFiles == ListOf({p \in DOMAIN files : files[p].exists})

\* initializePlugin() has run in a vault without markdown files, on a Monday,
\* before or after its end-of-day time, with the setting on or off
TimerInit ==
    /\ CoreIdle
    /\ enableEndOfDayNotifications \in BOOLEAN
    /\ clock \in [day : {0}, late : BOOLEAN]
    /\ files = EmptyMap
    /\ todosMap = EmptyMap
    /\ handlers = [h \in 1..MaxHandlers |-> NoHandler]
    /\ endOfDayTimeout = scheduleEndOfDayCheck(enableEndOfDayNotifications, NoTimer, {}, clock).endOfDayTimeout
    /\ timers = scheduleEndOfDayCheck(enableEndOfDayNotifications, NoTimer, {}, clock).timers

\* time passes: the end-of-day time of the day is reached, or the next day begins
Tick ==
    /\ clock.day < MaxDays \/ ~clock.late
    /\ clock' = IF clock.late THEN [day |-> clock.day + 1, late |-> FALSE]
                ELSE [clock EXCEPT !.late = TRUE]
    /\ UNCHANGED <<enableEndOfDayNotifications, endOfDayTimeout, timers, files, todosMap, handlers, ret>>
    /\ CoreFrame

\* the end-of-day timer fires: performEndOfDayCheck()
EndOfDayCheck ==
    /\ \E t \in timers : \E incomplete \in IncompleteCounts :
          /\ IsDue(t, clock)
          /\ LET r == performEndOfDayCheck(enableEndOfDayNotifications, endOfDayTimeout,
                                           timers \ {t}, clock, incomplete)
             IN /\ ret' = Call("performEndOfDayCheck", [notice |-> r.notice])
                /\ endOfDayTimeout' = r.timers.endOfDayTimeout
                /\ timers' = r.timers.timers
    /\ UNCHANGED <<enableEndOfDayNotifications, clock, files, todosMap, handlers>>
    /\ CoreFrame

\* updateSettings(newSettings) from the settings tab: the setting is stored,
\* the end-of-day check rescheduled, and parseAllTodos() clears the map and
\* starts over the files of the vault
UpdateSettings ==
    /\ \E enabled \in BOOLEAN :
          /\ enableEndOfDayNotifications' = enabled
          /\ endOfDayTimeout' = scheduleEndOfDayCheck(enabled, endOfDayTimeout, timers, clock).endOfDayTimeout
          /\ timers' = scheduleEndOfDayCheck(enabled, endOfDayTimeout, timers, clock).timers
    /\ todosMap' = EmptyMap
    /\ IF getMarkdownFiles = <<>> THEN UNCHANGED handlers
       ELSE \E h \in FreeSlots : /\ h = Min(FreeSlots)
                                 /\ handlers' = [handlers EXCEPT ![h] = StartParseAll(getMarkdownFiles)]
    /\ ret' = Call("updateSettings", <<>>)
    /\ UNCHANGED <<clock, files>>
    /\ CoreFrame

TimerNext == Tick \/ EndOfDayCheck \/ UpdateSettings

TimerSpec == TimerInit /\ [][TimerNext]_vars

\* ------------------------------------------------------------------------

\* The plugin: the vault's file events and the todos map
\* ------------------------------------------------------------------------

\* the markdown files of the vault
VaultPaths == {P_Notes}

\* what a file is created with or modified to
VaultContents == {<<L_WriteReport>>, <<L_PayRent>>}

\* how often a file is modified, and created again after a deletion
MaxModifications == 2

MaxCreates == 1

\* initializePlugin() has run to its end: every file of the vault has been
\* parsed into the map, and the end-of-day timer is set
VaultInit ==
    /\ CoreIdle
    /\ enableEndOfDayNotifications = TRUE
    /\ clock = [day |-> 0, late |-> FALSE]
    /\ endOfDayTimeout = scheduleEndOfDayCheck(TRUE, NoTimer, {}, clock).endOfDayTimeout
    /\ timers = scheduleEndOfDayCheck(TRUE, NoTimer, {}, clock).timers
    /\ files \in [VaultPaths -> [exists : {TRUE}, lines : VaultContents, modified : {0}, created : {0}]]
    /\ todosMap = [p \in VaultPaths |-> parseFileForTodos(<<>>, files[p].lines, p, dateTagFormat)]
    /\ handlers = [h \in 1..MaxHandlers |-> NoHandler]

\* the handler of a file event up to the await of cachedRead in parseFileForTodos
StartParseFile(path) ==
    [kind |-> "file", stage |-> "reading", path |-> path, lines |-> <<>>, rest |-> <<>>]

VaultFrame == UNCHANGED <<enableEndOfDayNotifications, endOfDayTimeout, timers, clock, ret>>

\* the file is modified: the vault's 'modify' event calls handleFileModified
FileModified ==
    /\ \E p \in DOMAIN files : \E c \in VaultContents : \E h \in FreeSlots :
          /\ files[p].exists
          /\ files[p].modified < MaxModifications
          /\ c # files[p].lines
          /\ h = Min(FreeSlots)
          /\ files' = [files EXCEPT ![p].lines = c, ![p].modified = @ + 1]
          /\ handlers' = [handlers EXCEPT ![h] = StartParseFile(p)]
    /\ UNCHANGED todosMap
    /\ VaultFrame
    /\ CoreFrame

\* the file is created: the vault's 'create' event calls handleFileCreated
FileCreated ==
    /\ \E p \in DOMAIN files : \E c \in VaultContents : \E h \in FreeSlots :
          /\ ~files[p].exists
          /\ files[p].created < MaxCreates
          /\ h = Min(FreeSlots)
          /\ files' = [files EXCEPT ![p].exists = TRUE, ![p].lines = c, ![p].created = @ + 1]
          /\ handlers' = [handlers EXCEPT ![h] = StartParseFile(p)]
    /\ UNCHANGED todosMap
    /\ VaultFrame
    /\ CoreFrame

\* the file is deleted: the vault's 'delete' event calls handleFileDeleted
FileDeleted ==
    /\ \E p \in DOMAIN files :
          /\ files[p].exists
          /\ files' = [files EXCEPT ![p].exists = FALSE, ![p].lines = <<>>]
          /\ todosMap' = MapDelete(todosMap, p)
    /\ UNCHANGED handlers
    /\ VaultFrame
    /\ CoreFrame

\* cachedRead(file) of a handler is served: it reads the lines the file has
\* now; the read of a deleted file is rejected, parseFileForTodos catches
\* that and returns
ReadFile ==
    /\ \E h \in 1..MaxHandlers :
          /\ handlers[h].stage = "reading"
          /\ handlers' = [handlers EXCEPT ![h] =
                IF files[handlers[h].path].exists
                THEN [@ EXCEPT !.stage = "parsing", !.lines = files[handlers[h].path].lines]
                ELSE AfterParseFile(@)]
    /\ UNCHANGED <<files, todosMap>>
    /\ VaultFrame
    /\ CoreFrame

\* the handler resumes with the content it read: the rest of
\* parseFileForTodos, that is the parse and this.todos.set(file.path, todos)
StoreTodos ==
    /\ \E h \in 1..MaxHandlers :
          /\ handlers[h].stage = "parsing"
          /\ todosMap' = IF parseEnhancedTodosInFile(handlers[h].lines, handlers[h].path, dateTagFormat).threw
                         THEN todosMap
                         ELSE MapSet(todosMap, handlers[h].path,
                                     parseEnhancedTodosInFile(handlers[h].lines, handlers[h].path,
                                                              dateTagFormat).todos)
          /\ handlers' = [handlers EXCEPT ![h] = AfterParseFile(@)]
    /\ UNCHANGED files
    /\ VaultFrame
    /\ CoreFrame

VaultNext == FileModified \/ FileCreated \/ FileDeleted \/ UpdateSettings \/ ReadFile \/ StoreTodos

VaultSpec == VaultInit /\ [][VaultNext]_vars

\* ------------------------------------------------------------------------

\* Properties
\* ------------------------------------------------------------------------

\* the complexity scores of a record's subtasks, in order
ComplexitiesOf(task) == [i \in 1..Len(task.subtasks) |-> task.subtasks[i].complexity]

IssueTypes(result) == {result.issues[i].type : i \in 1..Len(result.issues)}

\* C1: for the example document ('Plan vacation' and its four indented
\* subtask lines) the parse yields exactly one record, with subtaskCount 4,
\* automatic tier B and allocatedTime 30, and no record for a subtask line.
C1_ExampleYieldsOneRecord ==
    (pc = "parsed" /\ content = ExampleDocument) =>
        /\ Len(todos) = 1
        /\ todos[1].subtaskCount = 4
        /\ todos[1].priority = "B"
        /\ todos[1].isAutoPriority
        /\ todos[1].allocatedTime = 30

\* the first record of the example is the one the claim describes, and the
\* subtask lines yield four records more
C1_ExampleParsed ==
    /\ pc = "parsed"
    /\ content = ExampleDocument
    /\ Len(todos) = 5
    /\ todos[1].subtaskCount = 4
    /\ todos[1].priority = "B"
    /\ todos[2].lineNumber = 1

\* C2 as stated: the four subtasks of 'Plan vacation' score <<2,2,2,3>>, the
\* estimate is 90, and analyzeTaskSuitability reports TIME_MISMATCH with
\* recommendedAction 'required'.
C2_ExampleScores2223 ==
    (pc = "analyzed" /\ content = ExampleDocument /\ ret.task = 1) =>
        /\ ComplexitiesOf(todos[1]) = <<2, 2, 2, 3>>
        /\ estimateTaskTime(todos[1]) = 90
        /\ "TIME_MISMATCH" \in IssueTypes(ret.value)
        /\ ret.value.recommendedAction = "required"

\* C2 amended: the four subtasks of 'Plan vacation' score <<1,1,1,3>>, the
\* estimate is 60 minutes, which exceeds 1.5 x 30 = 45, and
\* analyzeTaskSuitability reports TIME_MISMATCH with recommendedAction
\* 'required'.
C2_ExampleScores1113 ==
    (pc = "analyzed" /\ content = ExampleDocument /\ ret.task = 1) =>
        /\ ComplexitiesOf(todos[1]) = <<1, 1, 1, 3>>
        /\ estimateTaskTime(todos[1]) = 60
        /\ 2 * 60 > 3 * todos[1].allocatedTime
        /\ "TIME_MISMATCH" \in IssueTypes(ret.value)
        /\ ret.value.recommendedAction = "required"

C2_ExampleAnalyzed ==
    /\ pc = "analyzed"
    /\ content = ExampleDocument
    /\ ret.task = 1
    /\ ret.op = "analyzeTaskSuitability"
    /\ todos[1].subtaskCount = 4

\* C3: parsing is total: for every document, file path and date-tag format
\* parseEnhancedTodosInFile returns a list of records and never raises.
C3_ParseNeverThrows == pc # "threw"

\* the set of the tags of a record
TagSet(task) == Range(task.tags)

\* the fields the round trip must preserve
SameRecord(a, b) == /\ a.title = b.title
                    /\ TagSet(a) = TagSet(b)
                    /\ a.priority = b.priority
                    /\ a.isAutoPriority = b.isAutoPriority
                    /\ a.isCompleted = b.isCompleted
                    /\ a.assignedDate = b.assignedDate

\* C4: parsing, writing every record back with generateTodoLine and parsing
\* the rejoined lines again yields records equal to the first parse in
\* title, tag set, tier, isAutoPriority, completion status and assigned date.
C4_RoundTripPreservesRecords ==
    pc = "reparsed" =>
        /\ ~reparsed.threw
        /\ Len(reparsed.todos) = Len(todos)
        /\ \A i \in 1..Len(todos) : SameRecord(todos[i], reparsed.todos[i])

\* no two subtasks of the record fall into the same category
AllCategoriesDiffer(task) ==
    \A i, j \in 1..Len(task.subtasks) :
        i # j => categorizeSubtask(task.subtasks[i].title) # categorizeSubtask(task.subtasks[j].title)

\* C5: every suggestion suggestBreakdown returns lists at least 2 subtask
\* titles, from the category grouping or from the complexity fallback.
C5_EverySuggestionHasTwo ==
    pc = "suggested" => \A k \in 1..Len(ret.value) : Len(ret.value[k].subtasks) >= 2

\* C5 amended: a suggestion of the category grouping lists at least 2
\* subtask titles; the complexity fallback (taken only for a task of more
\* than 6 subtasks no two of which share a category) returns one suggestion
\* for each non-empty band, which lists at least 1 title.
C5_SuggestionSizes ==
    pc = "suggested" =>
        LET task     == todos[ret.task]
            fallback == Len(task.subtasks) > 6 /\ AllCategoriesDiffer(task)
        IN \A k \in 1..Len(ret.value) :
              Len(ret.value[k].subtasks) >= (IF fallback THEN 1 ELSE 2)

\* the fallback returned a suggestion with a single member
C5_SingletonFromFallback ==
    /\ pc = "suggested"
    /\ Len(todos[ret.task].subtasks) > 6
    /\ \E k \in 1..Len(ret.value) : Len(ret.value[k].subtasks) = 1

\* the source line of a record
LineOf(task) == content[task.lineNumber + 1]

\* the tier named by the first #priority/<A-D> tag, and by the first bare tag
PriorityFormTier(line) == UpperChar(line[Min(PriorityTagMatches(line)) + Len(PriorityTagPrefix)])

BareFormTier(line) == UpperChar(line[Min(SimpleTagMatches(line)) + 1])

\* the line carries both override forms, naming different tiers
BothFormsDiffer(line) == /\ PriorityTagMatches(line) # {}
                         /\ SimpleTagMatches(line) # {}
                         /\ PriorityFormTier(line) # BareFormTier(line)

\* C6: when a task line carries both override forms naming different tiers,
\* the record's tier is that of the tag that occurs first in the line.
C6_LeftmostFormWins ==
    pc = "parsed" =>
        \A i \in 1..Len(todos) :
            BothFormsDiffer(LineOf(todos[i])) =>
                todos[i].priority =
                    IF Min(PriorityTagMatches(LineOf(todos[i]))) < Min(SimpleTagMatches(LineOf(todos[i])))
                    THEN PriorityFormTier(LineOf(todos[i]))
                    ELSE BareFormTier(LineOf(todos[i]))

\* C6 amended: when a task line carries both override forms naming different
\* tiers, the record's tier is that of the #priority/<A-D> tag, wherever the
\* bare tag stands, and the record is not auto-prioritised.
C6_PriorityFormWins ==
    pc = "parsed" =>
        \A i \in 1..Len(todos) :
            BothFormsDiffer(LineOf(todos[i])) =>
                /\ todos[i].priority = PriorityFormTier(LineOf(todos[i]))
                /\ ~todos[i].isAutoPriority

\* a parsed line whose bare tag stands before its #priority/ tag
C6_BareTagFirst ==
    /\ pc = "parsed"
    /\ \E i \in 1..Len(todos) :
          /\ BothFormsDiffer(LineOf(todos[i]))
          /\ Min(SimpleTagMatches(LineOf(todos[i]))) < Min(PriorityTagMatches(LineOf(todos[i])))
          /\ todos[i].priority = PriorityFormTier(LineOf(todos[i]))

\* the number of white-space characters a line starts with
Indent(line) == SkipWs(line, 1) - 1

\* the task-line shape of the specification: optional leading white space, a
\* '-' or '*' bullet, one space, and a checkbox holding a space, 'x' or 'X'
IsSpecTaskLine(line) ==
    LET b == SkipWs(line, 1)
    IN /\ b + 4 <= Len(line)
       /\ line[b] \in {"-", "*"}
       /\ line[b + 1] = " "
       /\ line[b + 2] = "["
       /\ line[b + 3] \in {" ", "x", "X"}
       /\ line[b + 4] = "]"

\* C7: a line yields a record if and only if it has the task-line shape, and
\* a line with a [X] checkbox yields a completed record.
C7_TaskLineIffCheckboxShape ==
    pc = "parsed" =>
        \A k \in 1..Len(content) :
            /\ IsSpecTaskLine(content[k]) <=> (\E i \in 1..Len(todos) : todos[i].lineNumber = k - 1)
            /\ (IsSpecTaskLine(content[k]) /\ Includes(content[k], BoxUpper)) =>
                  \E i \in 1..Len(todos) : todos[i].lineNumber = k - 1 /\ todos[i].isCompleted

\* the subtasks the specification gives the task line of indentation base:
\* the checkbox lines from index cur (1-based) on that are indented more
\* deeply, blank lines skipped, up to the first other line
RECURSIVE DeeperSubtaskCount(_, _, _)
DeeperSubtaskCount(lines, cur, base) ==
    IF cur > Len(lines) THEN 0
    ELSE IF isTodoLine(lines[cur]) /\ Indent(lines[cur]) > base
         THEN 1 + DeeperSubtaskCount(lines, cur + 1, base)
         ELSE IF trim(lines[cur]) = <<>>
              THEN DeeperSubtaskCount(lines, cur + 1, base)
              ELSE 0

\* C8: the subtasks of a task line are exactly the checkbox lines after it
\* that are indented more deeply than the task line, up to the first
\* non-blank line that is not one; a checkbox line at the same or a
\* shallower indentation is never among them.
C8_SubtasksAreDeeperIndented ==
    pc = "parsed" =>
        \A i \in 1..Len(todos) :
            todos[i].subtaskCount =
                DeeperSubtaskCount(content, todos[i].lineNumber + 2, Indent(LineOf(todos[i])))

\* C9: a parsed subtask whose title (prefix stripped, lower-cased) begins
\* with a simple-action verb has complexity exactly 1.
C9_SimpleVerbScoresOne ==
    pc = "parsed" =>
        \A i \in 1..Len(todos) : \A j \in 1..Len(todos[i].subtasks) :
            (\E v \in SimpleVerbs : StartsWith(toLowerCase(todos[i].subtasks[j].title), v)) =>
                todos[i].subtasks[j].complexity = 1

\* a tag that is exactly #priority/<A-D> or #<A-D>, in either case
IsExactOverrideTag(tag) ==
    \E c \in {"a", "b", "c", "d"} :
        toLowerCase(tag) = PriorityTagPrefix \o <<c>> \/ toLowerCase(tag) = <<"#", c>>

\* C10: a #priority/<value> tag whose value is not exactly one letter A-D is
\* no override: a record whose line has such a tag and no exact override tag
\* keeps isAutoPriority and gets the tier of its subtask count.
C10_InvalidPriorityValueIgnored ==
    pc = "parsed" =>
        \A i \in 1..Len(todos) :
            ( /\ \E t \in Range(todos[i].tags) : MatchAtNoCase(t, 1, PriorityTagPrefix)
              /\ \A t \in Range(todos[i].tags) : ~IsExactOverrideTag(t) ) =>
                /\ todos[i].isAutoPriority
                /\ todos[i].priority = assignPriorityBySubtaskCount(todos[i].subtaskCount)

\* the tiers named by the tags of a record that are exact override tags
ValidOverrideTiers(task) ==
    {UpperChar(t[Len(t)]) : t \in {u \in Range(task.tags) : IsExactOverrideTag(u)}}

\* C11: a record parsed from a task line that carries a valid manual override
\* tag has the tagged tier whatever its number of subtasks, is not
\* auto-prioritised, and has the fixed allocation of the tagged tier.
C11_OverrideTagDecidesTier ==
    pc = "parsed" =>
        \A i \in 1..Len(todos) :
            ValidOverrideTiers(todos[i]) # {} =>
                \E t \in ValidOverrideTiers(todos[i]) :
                    /\ todos[i].priority = t
                    /\ ~todos[i].isAutoPriority
                    /\ todos[i].allocatedTime = PRIORITY_TIME_RATIOS(t)

C13_WarningIffConfiguredThreshold ==
    pc = "record" =>
        (todo.needsRescheduleWarning <=> todo.rescheduleCount >= rescheduleWarningThreshold)

\* C14: a record with isAutoPriority = true, reached by parsing and priority
\* updates, is written by generateTodoLine as a line without a tag that sets
\* a manual priority: parsing that line gives a record with isAutoPriority =
\* true.
C14_AutoRecordSerializesAsAuto ==
    (pc = "reparsed" /\ todo.isAutoPriority) =>
        /\ ~reparsed.threw
        /\ Len(reparsed.todos) = 1
        /\ reparsed.todos[1].isAutoPriority

\* the threshold table of the specification
TableTier(n) == IF n <= 1 THEN "D" ELSE IF n <= 3 THEN "C" ELSE IF n <= 5 THEN "B" ELSE "A"

\* the tier order D < C < B < A
TierRank(t) == CASE t = "D" -> 0 [] t = "C" -> 1 [] t = "B" -> 2 [] t = "A" -> 3

\* C15: the tier assignPriorityBySubtaskCount returns for n subtasks is the
\* tier of the default table (0-1 D, 2-3 C, 4-5 B, 6 and more A), and no
\* smaller count gets a higher tier.
C15_ClassificationFollowsTable ==
    (pc = "returned" /\ arg.fn = "assignPriorityBySubtaskCount") =>
        /\ ret.value = TableTier(arg.subtaskCount)
        /\ \A m \in 0..arg.subtaskCount :
              TierRank(assignPriorityBySubtaskCount(m)) <= TierRank(ret.value)

\* the call returned for the first count of tier A
C15_SixSubtasksGiveA ==
    /\ pc = "returned"
    /\ arg.fn = "assignPriorityBySubtaskCount"
    /\ arg.subtaskCount = PRIORITY_A
    /\ ret.value = "A"

\* C16: the complexity calculateSubtaskComplexity returns is an integer from
\* 1 to 5 for every text, a text that matches every additive band included.
C16_ComplexityWithinOneToFive ==
    (pc = "returned" /\ arg.fn = "calculateSubtaskComplexity") => ret.value \in 1..5

\* the call returned for a text that matches every additive band
C16_AllBandsScoreFive ==
    /\ pc = "returned"
    /\ arg.fn = "calculateSubtaskComplexity"
    /\ \A words \in {MediumVerbs, ComplexVerbs, VeryComplexVerbs, ScopeWords, IntensityWords} :
          IncludesAny(toLowerCase(arg.subtaskTitle), words)
    /\ ~(\E v \in SimpleVerbs : StartsWith(toLowerCase(arg.subtaskTitle), v))
    /\ ret.value = 5

\* the fixed allocation of a tier, in minutes
FixedAllocation(tier) == CASE tier = "A" -> 30 [] tier = "B" -> 30 [] tier = "C" -> 10 [] tier = "D" -> 60

\* C17: in every state of a record reached from its creation by
\* updatePriority, autoFixSimpleIssues, updateTaskPriority, markCompleted,
\* markTodo, addRescheduleEvent, addSubtask and removeSubtask, allocatedTime
\* is the fixed allocation of the record's tier.
C17_AllocationFollowsTier ==
    pc = "record" => todo.allocatedTime = FixedAllocation(todo.priority)

\* updateTaskPriority has changed the tier of the record to C
C17_TierRecomputed ==
    /\ pc = "record"
    /\ ret.op = "updateTaskPriority"
    /\ ret.value = TRUE
    /\ todo.priority = "C"
    /\ todo.allocatedTime = 10

\* a step of markCompleted, of markTodo, of addRescheduleEvent
IsMarkCompletedStep ==
    /\ pc = "record"
    /\ ret'.op = "none"
    /\ \E now \in Instants : todo' = markCompleted(todo, now)

IsMarkTodoStep ==
    /\ pc = "record"
    /\ ret'.op = "none"
    /\ todo' = markTodo(todo)

IsRescheduleStep ==
    /\ pc = "record"
    /\ ret'.op = "none"
    /\ \E toDate \in TargetDates, now \in Instants :
          todo' = addRescheduleEvent(todo, todo.assignedDate, toDate, Reason, now)

\* the classification and scheduling fields are the same after the step
SameTierAndSchedule ==
    /\ todo'.priority = todo.priority
    /\ todo'.allocatedTime = todo.allocatedTime
    /\ todo'.assignedDate = todo.assignedDate
    /\ todo'.rescheduleCount = todo.rescheduleCount
    /\ todo'.rescheduleHistory = todo.rescheduleHistory

\* C18: the status of a record changes only from Todo to Done, by
\* markCompleted, and from Done to Todo, by markTodo. markCompleted sets
\* remainingTime to 0 and records a completion time; markTodo clears the
\* completion time and resets remainingTime to allocatedTime; both leave
\* tier, allocatedTime, assigned date, reschedule count and history as they
\* are. addRescheduleEvent leaves status and remainingTime as they are.
C18_StatusTransitions ==
    [][pc = "record" =>
          /\ (todo'.status # todo.status =>
                 \/ (todo.status = Todo /\ todo'.status = Done /\ IsMarkCompletedStep)
                 \/ (todo.status = Done /\ todo'.status = Todo /\ IsMarkTodoStep))
          /\ (IsMarkCompletedStep =>
                 /\ todo'.status = Done
                 /\ todo'.remainingTime = 0
                 /\ todo'.completedDate # NoDate
                 /\ SameTierAndSchedule)
          /\ (IsMarkTodoStep =>
                 /\ todo'.status = Todo
                 /\ todo'.completedDate = NoDate
                 /\ todo'.remainingTime = todo'.allocatedTime
                 /\ SameTierAndSchedule)
          /\ (IsRescheduleStep =>
                 /\ todo'.status = todo.status
                 /\ todo'.remainingTime = todo.remainingTime)]_vars

\* a rescheduled record that was completed
C18_CompletedAfterReschedule ==
    /\ pc = "record"
    /\ todo.status = Done
    /\ todo.completedDate # NoDate
    /\ todo.remainingTime = 0
    /\ todo.rescheduleCount >= 1

\* C19: in every state of a record reached from its creation by addSubtask,
\* removeSubtask (of a known or an unknown id) and the other record
\* operations, subtaskCount is the length of the subtask sequence.
C19_SubtaskCountIsLength ==
    pc = "record" => todo.subtaskCount = Len(todo.subtasks)

\* removeSubtask has removed one of several subtasks
C19_SubtaskRemoved ==
    /\ pc = "record"
    /\ ret.op = "removeSubtask"
    /\ ret.value = TRUE
    /\ Len(todo.subtasks) >= 1

\* s is an initial part of t
IsPrefix(s, t) == Len(s) <= Len(t) /\ SubSeq(t, 1, Len(s)) = s

\* C20: the reschedule history only grows at its end and rescheduleCount is
\* its length in every state: addRescheduleEvent appends one event and adds
\* one to the count, and no other operation changes the one or the other.
C20_HistoryAppendOnly ==
    /\ [](pc = "record" => todo.rescheduleCount = Len(todo.rescheduleHistory))
    /\ [][pc = "record" =>
             /\ IsPrefix(todo.rescheduleHistory, todo'.rescheduleHistory)
             /\ (IsRescheduleStep =>
                    /\ Len(todo'.rescheduleHistory) = Len(todo.rescheduleHistory) + 1
                    /\ todo'.rescheduleCount = todo.rescheduleCount + 1)
             /\ (~IsRescheduleStep =>
                    /\ todo'.rescheduleHistory = todo.rescheduleHistory
                    /\ todo'.rescheduleCount = todo.rescheduleCount)]_vars

\* a record rescheduled as often as the model lets it
C20_RescheduledToTheBound ==
    /\ pc = "record"
    /\ todo.rescheduleCount = MaxReschedules
    /\ Len(todo.rescheduleHistory) = MaxReschedules
\* the estimate as the specification computes it: 30 without subtasks,
\* otherwise 10 minutes per complexity point of every subtask
RECURSIVE SumOf(_)
SumOf(s) == IF s = <<>> THEN 0 ELSE Head(s) + SumOf(Tail(s))

SpecEstimate(task) == IF Len(task.subtasks) = 0 THEN 30 ELSE 10 * SumOf(ComplexitiesOf(task))

\* the record that the last call of the analyzer was made on
Analysed == todos[ret.task]

\* C21: analyzeTaskSuitability reports TIME_MISMATCH, with severity HIGH,
\* exactly when the estimate (30 without subtasks, otherwise the sum of
\* 10 x complexity over the subtasks) is strictly greater than 1.5 times the
\* time allocation of the task's tier; an estimate equal to 1.5 times the
\* allocation does not trigger it.
C21_TimeMismatchIffOverOneAndAHalf ==
    pc = "analyzed" =>
        LET over == 2 * SpecEstimate(Analysed) > 3 * FixedAllocation(Analysed.priority)
            reported == {i \in 1..Len(ret.value.issues) : ret.value.issues[i].type = "TIME_MISMATCH"}
        IN /\ Analysed.allocatedTime = FixedAllocation(Analysed.priority)
           /\ over <=> reported # {}
           /\ Cardinality(reported) <= 1
           /\ \A i \in reported : ret.value.issues[i].severity = "HIGH"

\* a tier-D task whose subtasks are estimated at exactly 90 minutes, 1.5 times
\* its 60 minutes, has been analysed without a TIME_MISMATCH
C21_EstimateAtTheLimit ==
    /\ pc = "analyzed"
    /\ Analysed.priority = "D"
    /\ SpecEstimate(Analysed) = 90
    /\ "TIME_MISMATCH" \notin IssueTypes(ret.value)
\* C30: a freshly parsed task with automatic priority and 2 or 3 subtasks
\* (tier C) or 6 or more subtasks (tier A) is reported with TIME_MISMATCH and
\* the recommended action 'required', whatever its subtask lines are; among
\* the automatically prioritised tasks with subtasks, only those with exactly
\* 1 subtask, or with exactly 4 subtasks all of complexity 1, are free of
\* TIME_MISMATCH.
C30_AutoTiersOverrunTheirAllocation ==
    (pc = "analyzed" /\ Analysed.isAutoPriority) =>
        LET n == Len(Analysed.subtasks)
            mismatch == "TIME_MISMATCH" \in IssueTypes(ret.value)
        IN /\ (n \in {2, 3} \/ n >= 6) => (mismatch /\ ret.value.recommendedAction = "required")
           /\ (n >= 1 /\ ~mismatch) =>
                 \/ n = 1
                 \/ n = 4 /\ \A i \in 1..n : Analysed.subtasks[i].complexity = 1

\* an automatically prioritised task with six subtasks, all of complexity 1,
\* has been analysed and reported as required
C30_SixSimpleSubtasksReported ==
    /\ pc = "analyzed"
    /\ Analysed.isAutoPriority
    /\ Analysed.priority = "A"
    /\ Len(Analysed.subtasks) = 6
    /\ \A i \in 1..6 : Analysed.subtasks[i].complexity = 1
    /\ "TIME_MISMATCH" \in IssueTypes(ret.value)
    /\ ret.value.recommendedAction = "required"
\* the ids of the relationship tags of a kind that a record carries
RelationIdsOf(task, prefix) ==
    {RelationId(task.tags[i], prefix) : i \in {k \in 1..Len(task.tags) : StartsWith(task.tags[k], prefix)}}

\* the number of occurrences of an id in a list of ids
Occurrences(ids, id) == Cardinality({i \in 1..Len(ids) : ids[i] = id})

\* every parent id is declared by at most one record of the batch
ParentIdsUnique ==
    \A p \in 1..Len(todos) : \A q \in 1..Len(todos) :
        RelationIdsOf(todos[p], ParentTagPrefix) \cap RelationIdsOf(todos[q], ParentTagPrefix) # {} => p = q

\* C22: after any number of runs of the linking step on a batch (in which each
\* parent id is declared by one record), a record c has parent p exactly when
\* c carries a #child/<id> tag and p carries the #parent/<id> tag of the same
\* id; p's child ids then contain c's id exactly once; and a #child/<id> tag
\* whose id no record declares creates no link.
C22_LinksFollowTagsOnce ==
    (pc = "linked" /\ ParentIdsUnique) =>
        \A c \in 1..Len(todos) :
            /\ \A p \in 1..Len(todos) :
                  LET tagged == RelationIdsOf(todos[c], ChildTagPrefix)
                                    \cap RelationIdsOf(todos[p], ParentTagPrefix) # {}
                  IN /\ todos[c].parentTaskId = todos[p].id <=> tagged
                     /\ tagged => Occurrences(todos[p].childTaskIds, todos[c].id) = 1
            /\ (\A p \in 1..Len(todos) :
                    RelationIdsOf(todos[c], ChildTagPrefix) \cap RelationIdsOf(todos[p], ParentTagPrefix) = {})
                  => /\ todos[c].parentTaskId = <<>>
                     /\ \A p \in 1..Len(todos) : Occurrences(todos[p].childTaskIds, todos[c].id) = 0
\* C23: in every state of a record reachable from its creation (creation
\* from a [x] line included) by markCompleted, markTodo, updatePriority,
\* updateTaskPriority and the automatic fix, a record whose status is Done
\* has remainingTime 0.
C23_DoneHasNoRemainingTime ==
    (pc = "record" /\ todo.status = Done) => todo.remainingTime = 0
\* C24: when toggleTaskStatus fails because the read or the write of the
\* source file throws, the completion status of the record after the call is
\* the one it had before the call, and the file is unchanged.
C24_FailedToggleKeepsStatus ==
    [][(pc = "record" /\ ret'.op = "toggleTaskStatus" /\ ret'.value = "Failed to update task status")
          => /\ content' = content
             /\ todo'.isCompleted = todo.isCompleted
             /\ todo'.status = todo.status]_vars
\* C25: for a record with automatic priority, in every state reachable from
\* parsing by addSubtask, removeSubtask, markCompleted, markTodo and
\* addRescheduleEvent, the tier is the one the automatic classification gives
\* to the current subtask count, and validateAutoPriority reports it valid.
C25_AutoTierFollowsSubtaskCount ==
    (pc = "record" /\ todo.isAutoPriority) =>
        /\ todo.priority = TableTier(todo.subtaskCount)
        /\ validateAutoPriority(todo).isValid

\* the ids of the subtasks of a record, in order
SubtaskIds(task) == [i \in 1..Len(task.subtasks) |-> task.subtasks[i].id]

\* C26: after any sequence of addSubtask and removeSubtask calls on a record,
\* its subtasks have pairwise distinct ids.
C26_SubtaskIdsDistinct ==
    pc = "record" =>
        \A i \in 1..Len(todo.subtasks) : \A j \in 1..Len(todo.subtasks) :
            todo.subtasks[i].id = todo.subtasks[j].id => i = j
\* a step in which the end-of-day timer fired and performEndOfDayCheck ran
EndOfDayCheckStep == ret'.op = "performEndOfDayCheck" /\ timers' # timers

\* C27: while the end-of-day notifications are enabled, after every
\* end-of-day check that fires and completes a next end-of-day timer is
\* pending, and at no time is more than one end-of-day timer pending.
C27_CheckRearmsItself ==
    /\ [](pc = "loaded" => Cardinality(timers) <= 1)
    /\ [][(pc = "loaded" /\ EndOfDayCheckStep /\ enableEndOfDayNotifications)
             => timers' # {}]_vars

\* C28: after updateSettings has turned the end-of-day notifications off, no
\* end-of-day notification is issued until they are turned on again, even if
\* a timer had been set before.
C28_NoNoticeWhileDisabled ==
    [][(pc = "loaded" /\ EndOfDayCheckStep /\ ret'.value.notice)
          => enableEndOfDayNotifications]_vars
\* no handler is in flight
Quiescent == \A h \in DOMAIN handlers : handlers[h] = NoHandler

\* C29: under every interleaving of the modify and create handlers,
\* parseAllTodos and the delete handler, once all handlers in flight have
\* finished, the todos map has no entry for the path of a deleted file and
\* getAllTodos returns no task from it, and the entry of a file that has been
\* modified twice is the parse of its later content.
C29_MapFollowsTheVault ==
    (pc = "loaded" /\ Quiescent) =>
        \A p \in DOMAIN files :
            /\ ~files[p].exists =>
                  /\ p \notin DOMAIN todosMap
                  /\ \A t \in getAllTodos(todosMap) : t.sourceFilePath # p
            /\ (files[p].exists /\ files[p].modified >= 2) =>
                  /\ p \in DOMAIN todosMap
                  /\ todosMap[p] = parseEnhancedTodosInFile(files[p].lines, p, dateTagFormat).todos

====
